---- MODULE Spec2Model ----
(***************************************************************************)
(* Coin180: the signal analysis pipeline (noise filter, trend classifier,  *)
(* momentum fusion, consensus fusion) and the callers that drive it (live  *)
(* interval timer, heatmap replay workers, the image-analysis channel).    *)
(*                                                                         *)
(* Numbers.  The TypeScript code computes on IEEE doubles.  Here every     *)
(* confidence, threshold and score ratio is a fixed-point integer counted  *)
(* in units of 1/One (One stands for 1.0); quotients the code compares     *)
(* against a threshold are compared exactly by cross-multiplication, and a *)
(* quotient that is returned is rounded toward zero to a multiple of 1/One.*)
(***************************************************************************)
EXTENDS Integers, Sequences, FiniteSets, TLC

VARIABLES
    \* TradeSignalAnalyzer (Consensus Fusion Analyzer)
    tsaOptions,          \* the options record the constructor accepted
    tsaHistory,          \* this.history
    lastEmittedSignal,   \* this.lastEmittedSignal
    tsaTick,             \* observation of the most recent update call
    \* The two classifiers, fed the same filtered score on every tick
    clsOptions,          \* [slope, momentum]: the two option records
    slopeSignAnalyzer,   \* the SlopeSignAnalyzer's fields
    momentumCompositeAnalyzer, \* the MomentumCompositeAnalyzer's fields (with its Wilder engine)
    clsTick,             \* observation of the most recent pair of update calls
    clsTicks,            \* number of ticks fed so far
    \* The Noise Filter in front of the classifiers
    filterOptions,       \* the DeltaFilterAnalyzer's options as constructed
    deltaFilterAnalyzer, \* the DeltaFilterAnalyzer's fields
    filterTick,          \* observation of the most recent filter update
    \* Replay of recorded heatmap frames (tools/heatmapReplay/replay.ts)
    rpMode,              \* "workers": replayFromHeatmaps; "all": processHeatmapsAsynchronously
    frames,              \* the frames as loaded, each named by its timestamp
    rpProcs,             \* position of main (0) and of each worker or task (1..n)
    bufferedResults,     \* frame indices analysed and not yet taken by the feed loop
    nextToProcess,       \* index of the next frame the pipeline is to be fed
    processingQueue,     \* a processAvailableResults invocation is running its loop
    cursor,              \* next frame index to hand to a worker
    feeding,             \* timestamps whose pipeline feed has begun and not yet returned
    fedLog,              \* timestamps of the frames the pipeline was fed, in feed order
    logFile,             \* timestamps of the tick lines written, in file order
    analysed,            \* timestamps in the order their analysis finished
    \* Live session of one TradeController (start / tick / stop)
    intervalId,          \* TRUE while the interval timer is set
    liveTicks,           \* the tick() calls so far: position, timestamp, score
    liveClock,           \* Date.now(), as the number of captures completed so far
    liveFed,             \* timestamps of the frames whose pipeline updates ran, in order
    \* One PythonHeatmapAgent and its child process
    disposed,            \* the agent's disposed flag
    childState,          \* "running", "exited" or "errored"
    rlClosed,            \* the readline interface on the child's stdout has closed
    agCalls,             \* the analyze calls so far: state, line settled with, settle count
    agListeners,         \* calls whose waitForLine listeners are registered
    agStdin,             \* requests written and not yet read by the child
    agStdout,            \* response lines written by the child and not yet emitted
    \* Two controllers constructed from one configuration
    twinOptions,         \* the configuration both were constructed from
    twinA, twinB,        \* the analyzers' state of each controller
    twinInputs,          \* the raw scores given to the first controller, in order
    twinOutA, twinOutB,  \* the stage results each controller returned, per tick
    wallClock,           \* the time of day, advancing with every tick of either
    \* Controllers added to one TradeManagerService
    sessOptions,         \* the options objects in use: each one's minSaturation now
    sessControllers,     \* per controller: its options object and its analyzers' state
    sessAlone,           \* per controller: the same controller run with nothing else
    sessTick,            \* observation of the most recent tick of a controller
    \* Construction of single analyzers
    ctorCall,            \* the most recent constructor call: kind, options, threw
    ctorInstance,        \* the analyzer in use: the last one a constructor returned
    \* A DeltaFilterAnalyzer driven directly: update with any number, reset
    dfOptions,           \* the clamped alpha, maxJump and freezeThreshold
    dfFilter,            \* lastFiltered, initialized, residual of the filter
    dfSkipped,           \* the same filter had the non-finite calls not been made
    dfFresh,             \* a filter constructed where this one was last reset,
                         \* and the state that reset wiped
    dfAccepted,          \* output of the last call that passed the finite guard,
                         \* the number of calls that did not, the first score
                         \* and whether every call so far was update with it
                         \* and the smallest and largest score since the seed
    dfCall,              \* observation of the most recent call
    dfCalls,             \* number of calls made
    \* A WilderMomentumAnalyzer driven directly
    wmPeriod,            \* this.period; 0 while none has been constructed
    wmState,             \* last, warmup, avgGain, avgLoss
    wmOut,               \* what the most recent update returned, whether the inputs
                         \* so far rose or fell strictly, and their smallest step
    wmCalls,             \* number of update calls made
    \* A TradeManagerService distributing frames to its controllers
    tkControllers,       \* per controller: active, tick counter, analyzeTick in
                         \* flight, calls submitted, tickIds of the events emitted
    tkService,           \* runningTick set, and the number of ticks started
    \* A MovingAverageAnalyzer driven on its own
    maOptions,           \* shortWindow, longWindow, hysteresisCount, adaptive
    maState,             \* history and the hysteresis fields
    maTick,              \* what the most recent update saw and returned
    maCalls,             \* number of update calls made
    \* HeatmapAnalyzer on its own
    hmConfigured,        \* the options as they were when the analyzer was constructed
    hmOptions,           \* this.options as it is now
    hmFrames,            \* the frames analysed so far, in order
    hmCall               \* the last call: op, frame, options before, result

tsaVars == <<tsaOptions, tsaHistory, lastEmittedSignal, tsaTick>>

clsVars == <<clsOptions, slopeSignAnalyzer, momentumCompositeAnalyzer, clsTick, clsTicks>>

filterVars == <<filterOptions, deltaFilterAnalyzer, filterTick>>

pipelineVars == <<tsaVars, clsVars, filterVars>>

replayVars == <<rpMode, frames, rpProcs, bufferedResults, nextToProcess,
                processingQueue, cursor, feeding, fedLog, logFile, analysed>>

liveVars == <<intervalId, liveTicks, liveClock, liveFed>>

agentVars == <<disposed, childState, rlClosed, agCalls, agListeners, agStdin, agStdout>>

twinVars == <<twinOptions, twinA, twinB, twinInputs, twinOutA, twinOutB, wallClock>>

sessVars == <<sessOptions, sessControllers, sessAlone, sessTick>>

ctorVars == <<ctorCall, ctorInstance>>

dfVars == <<dfOptions, dfFilter, dfSkipped, dfFresh, dfAccepted, dfCall, dfCalls>>

wmVars == <<wmPeriod, wmState, wmOut, wmCalls>>

tkVars == <<tkControllers, tkService>>

maVars == <<maOptions, maState, maTick, maCalls>>

hmVars == <<hmConfigured, hmOptions, hmFrames, hmCall>>

vars == <<tsaOptions, tsaHistory, lastEmittedSignal, tsaTick,
          clsOptions, slopeSignAnalyzer, momentumCompositeAnalyzer, clsTick, clsTicks,
          filterOptions, deltaFilterAnalyzer, filterTick,
          rpMode, frames, rpProcs, bufferedResults, nextToProcess,
          processingQueue, cursor, feeding, fedLog, logFile, analysed,
          intervalId, liveTicks, liveClock, liveFed,
          disposed, childState, rlClosed, agCalls, agListeners, agStdin, agStdout,
          twinOptions, twinA, twinB, twinInputs, twinOutA, twinOutB, wallClock,
          sessOptions, sessControllers, sessAlone, sessTick,
          ctorCall, ctorInstance,
          dfOptions, dfFilter, dfSkipped, dfFresh, dfAccepted, dfCall, dfCalls,
          wmPeriod, wmState, wmOut, wmCalls,
          tkControllers, tkService,
          maOptions, maState, maTick, maCalls,
          hmConfigured, hmOptions, hmFrames, hmCall>>

(***************************************************************************)
(* Shared numeric helpers                                                  *)
(***************************************************************************)
One == 100

Abs(x) == IF x < 0 THEN -x ELSE x

Min(a, b) == IF a <= b THEN a ELSE b

Max(a, b) == IF a >= b THEN a ELSE b

\* enum TradeSignal
Buy == "buy"
Sell == "sell"
Neutral == "neutral"
TradeSignal == {Buy, Sell, Neutral}

\* interface TradeSignalAnalyzerResult
Result(sig, conf) == [tradeSignal |-> sig, confidence |-> conf]

NeutralResult_Stale == Result(Neutral, One \div 2)

NeutralResult == Result(Neutral, 0)

(***************************************************************************)
(* TradeSignalAnalyzer                                                     *)
(***************************************************************************)

\* The constructor's validation: thresholds straddle 0 and lie in [-1,1],
\* sentiment thresholds straddle 0 (buy < 0 < sell).
TsaOptionsValid(o) ==
    /\ o.sellThreshold < 0 /\ o.buyThreshold > 0
    /\ ~(o.buyThreshold > One \/ o.sellThreshold < -One)
    /\ o.sentimentBuyThreshold < 0 /\ o.sentimentSellThreshold > 0

\* Option records offered to the constructor; windowSize is already
\* Math.max(1, options.windowSize).
TsaOptionChoices ==
    [windowSize : {1, 2},
     buyThreshold : {60},
     sellThreshold : {-60},
     fusionMode : {"weighted", "unanimous"},
     sentimentBuyThreshold : {-50},
     sentimentSellThreshold : {50}]

signalToNumeric(r) ==
    CASE r.tradeSignal = Buy -> 1
      [] r.tradeSignal = Sell -> -1
      [] OTHER -> 0

\* computeTickFusion.  tickScore is the exact fraction scoreNum / scoreDen;
\* tickConfidence2 is twice tickConfidence (totalConfidence / 2 in the code).
computeTickFusion_AnyBuy(o, entry) ==
    LET slope    == signalToNumeric(entry.slopeSignTradeSignal)
        momentum == signalToNumeric(entry.momentumCompositeTradeSignal)
        cSlope    == entry.slopeSignTradeSignal.confidence
        cMomentum == entry.momentumCompositeTradeSignal.confidence
        anyBuy  == slope = 1 \/ momentum = 1
        allSell == slope = -1 /\ momentum = -1
        totalConfidence == cSlope + cMomentum
    IN  IF o.fusionMode = "unanimous" /\ ~anyBuy /\ ~allSell
        THEN [scoreNum |-> 0, scoreDen |-> 1, tickConfidence2 |-> 0]
        ELSE [scoreNum |-> IF totalConfidence > 0
                           THEN slope * cSlope + momentum * cMomentum ELSE 0,
              scoreDen |-> IF totalConfidence > 0 THEN totalConfidence ELSE 1,
              tickConfidence2 |-> totalConfidence]

computeTickFusion(o, entry) ==
    LET slope    == signalToNumeric(entry.slopeSignTradeSignal)
        momentum == signalToNumeric(entry.momentumCompositeTradeSignal)
        cSlope    == entry.slopeSignTradeSignal.confidence
        cMomentum == entry.momentumCompositeTradeSignal.confidence
        allBuy  == slope = 1 /\ momentum = 1
        allSell == slope = -1 /\ momentum = -1
        totalConfidence == cSlope + cMomentum
    IN  IF o.fusionMode = "unanimous" /\ ~allBuy /\ ~allSell
        THEN [scoreNum |-> 0, scoreDen |-> 1, tickConfidence2 |-> 0]
        ELSE [scoreNum |-> IF totalConfidence > 0
                           THEN slope * cSlope + momentum * cMomentum ELSE 0,
              scoreDen |-> IF totalConfidence > 0 THEN totalConfidence ELSE 1,
              tickConfidence2 |-> totalConfidence]

\* The loop of computeConsensus: sums over this.history of
\* tickScore * tickConfidence and of tickConfidence (both doubled).
RECURSIVE SumFusion(_, _)
SumFusion(o, h) ==
    IF h = <<>> THEN [totalScore2 |-> 0, totalConfidence2 |-> 0]
    ELSE LET f    == computeTickFusion(o, Head(h))
             rest == SumFusion(o, Tail(h))
         IN  [totalScore2 |-> rest.totalScore2
                               + (f.scoreNum * f.tickConfidence2) \div f.scoreDen,
              totalConfidence2 |-> rest.totalConfidence2 + f.tickConfidence2]

\* computeConsensus: null when totalConfidence === 0, otherwise the sums;
\* consensusScore is the fraction totalScore2 / totalConfidence2.
NoConsensus == [none |-> TRUE, totalScore2 |-> 0, totalConfidence2 |-> 0]

computeConsensus(o, h) ==
    LET s == SumFusion(o, h)
    IN  IF s.totalConfidence2 = 0 THEN NoConsensus
        ELSE [none |-> FALSE, totalScore2 |-> s.totalScore2,
              totalConfidence2 |-> s.totalConfidence2]

\* determineConsensusSignal(consensusScore), consensusScore = num / den, den > 0
determineConsensusSignal(o, num, den) ==
    IF num * One >= o.buyThreshold * den THEN Buy
    ELSE IF num * One <= o.sellThreshold * den THEN Sell
    ELSE Neutral

\* The two early returns of handleEdgeDetection.
SentimentBuyVeto_Flipped(o, consensusSignal, sentimentScore) ==
    consensusSignal = Buy /\ sentimentScore < o.sentimentBuyThreshold

SentimentBuyVeto(o, consensusSignal, sentimentScore) ==
    consensusSignal = Buy /\ sentimentScore > o.sentimentBuyThreshold

SentimentSellVeto(o, consensusSignal, sentimentScore) ==
    consensusSignal = Sell /\ sentimentScore < o.sentimentSellThreshold

EmittedConfidence_Signed(num, den) == Min(One, (num * One) \div den)

\* Math.min(1, Math.abs(consensusScore)) in units of 1/One
EmittedConfidence(num, den) == Min(One, (Abs(num) * One) \div den)

\* shouldEmitSignal: only on the transition from Neutral to a signal.
shouldEmitSignal_EveryTick(last, consensusSignal) ==
    consensusSignal # Neutral

shouldEmitSignal(last, consensusSignal) ==
    last = Neutral /\ consensusSignal # Neutral

HeldSignal_RearmsOnChange(last, consensusSignal) ==
    IF consensusSignal = last THEN last ELSE Neutral

\* lastEmittedSignal after a tick that emits nothing: reset only if the
\* consensus drops back to Neutral
HeldSignal(last, consensusSignal) ==
    IF consensusSignal = Neutral THEN Neutral ELSE last

\* handleEdgeDetection: the result and the new lastEmittedSignal.
handleEdgeDetection(o, last, consensusSignal, num, den, sentimentScore) ==
    IF SentimentBuyVeto(o, consensusSignal, sentimentScore)
    THEN [result |-> NeutralResult, last |-> last, reason |-> "sentiment_buy_threshold_not_met"]
    ELSE IF SentimentSellVeto(o, consensusSignal, sentimentScore)
    THEN [result |-> NeutralResult, last |-> last, reason |-> "sentiment_sell_threshold_not_met"]
    ELSE IF shouldEmitSignal(last, consensusSignal)
    THEN [result |-> Result(consensusSignal, EmittedConfidence(num, den)),
          last |-> consensusSignal, reason |-> "signal_emitted_once"]
    ELSE [result |-> NeutralResult,
          last |-> HeldSignal(last, consensusSignal),
          reason |-> IF consensusSignal # Neutral THEN "consensus_held" ELSE "neutral"]

\* createNeutralResult(currentFusion, 'no_confidence'): lastEmittedSignal is
\* not touched.
createNeutralResult(last) ==
    [result |-> NeutralResult, last |-> last, reason |-> "no_confidence"]

\* history.push then splice(0, length - windowSize)
PushWindow(h, x, size) ==
    LET h2 == Append(h, x)
    IN  IF Len(h2) > size THEN SubSeq(h2, Len(h2) - size + 1, Len(h2)) ELSE h2

\* What computeTickFusion reads of a stored input: the two upstream results
\* (the sentimentScore of a stored entry is never read again).
HistoryEntry(input) ==
    [slopeSignTradeSignal |-> input.slopeSignTradeSignal,
     momentumCompositeTradeSignal |-> input.momentumCompositeTradeSignal]

\* TradeSignalAnalyzer.update as a function of the state before the call.
TsaUpdate(o, history, last, input) ==
    LET h2 == PushWindow(history, HistoryEntry(input), o.windowSize)
        c  == computeConsensus(o, h2)
        consensusSignal ==
            IF c.none THEN "none"
            ELSE determineConsensusSignal(o, c.totalScore2, c.totalConfidence2)
        e  == IF c.none THEN createNeutralResult(last)
              ELSE handleEdgeDetection(o, last, consensusSignal, c.totalScore2,
                                       c.totalConfidence2, input.sentimentScore)
    IN  [history |-> h2, last |-> e.last, result |-> e.result,
         reason |-> e.reason, consensusSignal |-> consensusSignal,
         scoreNum |-> c.totalScore2, scoreDen |-> c.totalConfidence2]

\* Upstream results the two classifiers can hand over: the Trend Classifier
\* returns Neutral with or without confidence, the Momentum Fusion Analyzer
\* returns Neutral only with confidence 0.
Half == One \div 2

SlopeInputs ==
    {Result(Buy, One), Result(Sell, One), Result(Neutral, Half), NeutralResult}

MomentumInputs ==
    {Result(Buy, One), Result(Sell, Half), NeutralResult}

SentimentInputs == {-80, -50, 0, 50, 80}

TsaInputs ==
    [slopeSignTradeSignal : SlopeInputs,
     momentumCompositeTradeSignal : MomentumInputs,
     sentimentScore : SentimentInputs]

\* tsaTick before the first call.
NoTick ==
    [called |-> FALSE, sentimentScore |-> 0, before |-> Neutral,
     consensusSignal |-> "none", result |-> NeutralResult,
     scoreNum |-> 0, scoreDen |-> 0, reason |-> "none", neutralSince |-> TRUE]

\* Whether a tick with a Neutral consensus has come since the last non-Neutral
\* result (TRUE while nothing has been emitted yet)
NeutralSince(prev, u) ==
    IF u.result.tradeSignal # Neutral THEN FALSE
    ELSE prev.neutralSince \/ u.consensusSignal = Neutral

(***************************************************************************)
(* Helpers shared by the two classifiers.  Scores are whole score points;  *)
(* minSlopeMagnitude, thresholds and confidences count in units of 1/One;  *)
(* confidenceDecayRate counts in units of ln 2, so that                    *)
(* Math.exp(-rate * steps) is the exact power of two 2^-(rate * steps).    *)
(***************************************************************************)
RECURSIVE SumSeq(_)
SumSeq(q) == IF q = <<>> THEN 0 ELSE Head(q) + SumSeq(Tail(q))

RECURSIVE SumSquares(_)
SumSquares(q) == IF q = <<>> THEN 0 ELSE Head(q) * Head(q) + SumSquares(Tail(q))

\* array.slice(-n) for n >= 1
LastN(q, n) == IF Len(q) <= n THEN q ELSE SubSeq(q, Len(q) - n + 1, Len(q))

CapHistory_KeepOldest(q, maxHistory) ==
    IF Len(q) > maxHistory THEN SubSeq(q, 1, maxHistory) ELSE q

\* history.splice(0, history.length - maxHistory) when longer than maxHistory
CapHistory(q, maxHistory) == IF Len(q) > maxHistory THEN LastN(q, maxHistory) ELSE q

\* n * n * variance of the samples (variance = sum((b - mean)^2) / n)
ScaledVariance(q) == Len(q) * SumSquares(q) - SumSeq(q) * SumSeq(q)

\* Math.exp(-rate * steps) in units of 1/One, rate in units of ln 2
ExpNeg_WallClock(rate, steps) ==
    IF rate * (steps + wallClock) >= 7 THEN 0
    ELSE One \div (2 ^ (rate * (steps + wallClock)))

ExpNeg(rate, steps) ==
    IF rate * steps >= 7 THEN 0 ELSE One \div (2 ^ (rate * steps))

\* The adaptive window of both classifiers:
\*   normalized = min(1, stdDev / volScale * sensitivity)
\*   round(maxWindow - normalized * (maxWindow - minWindow)), clamped.
\* Math.round rounds half up, so the rounded value is maxWindow minus the
\* number of j with normalized * (max - min) > j - 1/2; each comparison is
\* squared to stay in the integers (stdDev = sqrt(ScaledVariance) / n).
AdaptiveSize(recent, o) ==
    LET n == Len(recent)
        V == ScaledVariance(recent)
        D == o.adaptiveMaxWindow - o.adaptiveMinWindow
        above(j) == /\ 2 * D > 2 * j - 1
                    /\ 4 * V * o.adaptiveSensitivity * o.adaptiveSensitivity * D * D
                         > (2 * j - 1) * (2 * j - 1) * n * n
                             * o.adaptiveVolScale * o.adaptiveVolScale
        adaptiveSize == o.adaptiveMaxWindow - Cardinality({j \in 1..D : above(j)})
    IN  Max(o.adaptiveMinWindow, Min(o.adaptiveMaxWindow, adaptiveSize))

(***************************************************************************)
(* SlopeSignAnalyzer (Trend Classifier)                                    *)
(***************************************************************************)
Up == "up"
Down == "down"
Flat == "flat"
NoCandidate == "null"

SlopeInitState ==
    [history |-> <<>>, lastDirection |-> Flat, candidateDirection |-> NoCandidate,
     stableCount |-> 0, persistenceSteps |-> 0]

\* computeAdaptiveWindow on the history after the push
computeAdaptiveWindow(o, history) ==
    IF ~o.adaptive \/ Len(history) < o.slopeWindow THEN o.slopeWindow
    ELSE AdaptiveSize(LastN(history, o.slopeWindow), o)

\* computeSlope: (last - first) / (length - 1) as the fraction num / den
computeSlope(values) ==
    IF Len(values) < 2 THEN [num |-> 0, den |-> 1]
    ELSE [num |-> values[Len(values)] - values[1], den |-> Len(values) - 1]

getDirection(o, slope) ==
    IF Abs(slope.num) * One < o.minSlopeMagnitude * slope.den THEN Flat
    ELSE IF slope.num > 0 THEN Up ELSE Down

\* Math.min(1, Math.abs(slope) / (minSlopeMagnitude * 5))
baseConfidence(o, slope) ==
    Min(One, (Abs(slope.num) * One * One) \div (o.minSlopeMagnitude * 5 * slope.den))

\* Math.abs(slope) < minSlopeMagnitude * 1.25
BelowSustain(o, slope) ==
    Abs(slope.num) * One * 4 < o.minSlopeMagnitude * 5 * slope.den

\* stableCount >= hysteresisCount
SlopeFlipConfirmed_OneShort(o, stableCount) == stableCount >= o.hysteresisCount - 1

SlopeFlipConfirmed(o, stableCount) == stableCount >= o.hysteresisCount

SlopeStableCount_FromZero(s, direction) ==
    IF s.candidateDirection = direction THEN s.stableCount + 1 ELSE 0

\* The agreement count for a direction that differs from the confirmed one:
\* one more for the pending candidate, 1 for a new candidate
SlopeStableCount(s, direction) ==
    IF s.candidateDirection = direction THEN s.stableCount + 1 ELSE 1

\* The result of the same-direction branch: Neutral with the (decayed) confidence
SlopePersistResult(confidence) == Result(Neutral, confidence)

\* The result while a flip is forming: Neutral with the slope confidence
SlopePendingResult(confidence) == Result(Neutral, confidence)

\* SlopeSignAnalyzer.update: the new state, the result, and what was observed
\* (the window used; the direction, or "none" when history is too short).
SlopeUpdate(o, s, score) ==
    LET pushed == Append(s.history, score)
        currentWindow == computeAdaptiveWindow(o, pushed)
        maxHistory == Max(o.adaptiveMaxWindow, currentWindow) * 2
        history == CapHistory(pushed, maxHistory)
        recent == LastN(history, currentWindow)
        slope == computeSlope(recent)
        direction == getDirection(o, slope)
        confidence == baseConfidence(o, slope)
        signal == IF direction = Up THEN Buy ELSE Sell
        steps == s.persistenceSteps + 1
        decayed == IF BelowSustain(o, slope)
                   THEN (confidence * ExpNeg(o.confidenceDecayRate, steps)) \div One
                   ELSE confidence
        stable == SlopeStableCount(s, direction)
        cleared == [history |-> history, lastDirection |-> s.lastDirection,
                    candidateDirection |-> NoCandidate, stableCount |-> 0,
                    persistenceSteps |-> 0]
    IN  IF Len(history) < currentWindow
        THEN [state |-> [s EXCEPT !.history = history], result |-> NeutralResult,
              window |-> currentWindow, direction |-> "none", branch |-> "insufficient"]
        ELSE IF direction = Flat
        THEN [state |-> cleared, result |-> NeutralResult,
              window |-> currentWindow, direction |-> direction, branch |-> "flat"]
        ELSE IF o.hysteresisCount <= 0
        THEN [state |-> [cleared EXCEPT !.lastDirection = direction],
              result |-> Result(signal, confidence),
              window |-> currentWindow, direction |-> direction, branch |-> "instant"]
        ELSE IF direction = s.lastDirection
        THEN [state |-> [cleared EXCEPT !.persistenceSteps = steps],
              result |-> SlopePersistResult(decayed),
              window |-> currentWindow, direction |-> direction, branch |-> "persist"]
        ELSE IF SlopeFlipConfirmed(o, stable)
        THEN [state |-> [cleared EXCEPT !.lastDirection = direction],
              result |-> Result(signal, Min(One, (confidence * o.confidenceMultiplier) \div One)),
              window |-> currentWindow, direction |-> direction, branch |-> "flip"]
        ELSE [state |-> [history |-> history, lastDirection |-> s.lastDirection,
                         candidateDirection |-> direction, stableCount |-> stable,
                         persistenceSteps |-> 0],
              result |-> SlopePendingResult(confidence),
              window |-> currentWindow, direction |-> direction, branch |-> "pending"]

(***************************************************************************)
(* WilderMomentumAnalyzer (Oscillator Engine)                              *)
(* avgGain and avgLoss count in units of 1/One of a score point; EPS       *)
(* (1e-8) counts as one such unit where the scores are whole points, so    *)
(* that "g < EPS" is "g = 0" there; where the engine is driven on its own  *)
(* a score is counted in quarters of EPS.                                  *)
(***************************************************************************)
WilderInitState ==
    [hasLast |-> FALSE, last |-> 0, warmup |-> <<>>, seeded |-> FALSE,
     avgGain |-> 0, avgLoss |-> 0]

RECURSIVE SumGains(_)
SumGains(q) ==
    IF q = <<>> THEN 0
    ELSE (IF Head(q) > 0 THEN Head(q) ELSE 0) + SumGains(Tail(q))

RECURSIVE SumLosses(_)
SumLosses(q) ==
    IF q = <<>> THEN 0
    ELSE (IF Head(q) > 0 THEN 0 ELSE -Head(q)) + SumLosses(Tail(q))

\* rsiNorm from the two averages: (rsi100 - 50) / 50 with
\* rsi100 = 100 - 100 / (1 + g / l), that is (g - l) / (g + l)
RsiNorm_NoSaturation(g, l, eps) ==
    IF g < eps /\ l < eps THEN 0
    ELSE Max(-One, Min(One, ((g - l) * One) \div (g + l + 1)))

RsiNorm(g, l, eps) ==
    IF g < eps /\ l < eps THEN 0
    ELSE IF l < eps THEN One
    ELSE IF g < eps THEN -One
    ELSE Max(-One, Min(One, ((g - l) * One) \div (g + l)))

\* const EPS = 1e-8, in units of the averages of whole-point scores
EPS == 1

\* EPS in units of the averages of scores counted in quarters of EPS
FineEPS == 4 * One

WarmupFull_OneMore(warmup, period) == ~(Len(warmup) <= period)

\* The warm-up differences collected suffice to seed the averages
WarmupFull(warmup, period) == ~(Len(warmup) < period)

\* WilderMomentumAnalyzer.update: new state, and the output (null or rsiNorm)
WilderStep(period, w, value, eps) ==
    IF ~w.hasLast
    THEN [state |-> [w EXCEPT !.hasLast = TRUE, !.last = value],
          isNull |-> TRUE, rsiNorm |-> 0]
    ELSE LET diff == value - w.last
         IN  IF ~w.seeded
             THEN LET warmup == Append(w.warmup, diff)
                  IN  IF ~WarmupFull(warmup, period)
                      THEN [state |-> [w EXCEPT !.last = value, !.warmup = warmup],
                            isNull |-> TRUE, rsiNorm |-> 0]
                      ELSE LET g == (SumGains(warmup) * One) \div period
                               l == (SumLosses(warmup) * One) \div period
                           IN  [state |-> [hasLast |-> TRUE, last |-> value,
                                           warmup |-> <<>>, seeded |-> TRUE,
                                           avgGain |-> g, avgLoss |-> l],
                                isNull |-> FALSE, rsiNorm |-> RsiNorm(g, l, eps)]
             ELSE LET gain == Max(diff, 0)
                      loss == Max(-diff, 0)
                      g == (w.avgGain * (period - 1) + gain * One) \div period
                      l == (w.avgLoss * (period - 1) + loss * One) \div period
                  IN  [state |-> [w EXCEPT !.last = value, !.avgGain = g, !.avgLoss = l],
                       isNull |-> FALSE, rsiNorm |-> RsiNorm(g, l, eps)]

\* The engine inside MomentumCompositeAnalyzer, fed whole-point scores
WilderUpdate(period, w, value) == WilderStep(period, w, value, EPS)

(***************************************************************************)
(* MomentumCompositeAnalyzer (Momentum Fusion Analyzer)                    *)
(***************************************************************************)
MomentumOptionsValid_NoRange(o) ==
    o.sellThreshold < 0 /\ o.buyThreshold > 0

MomentumOptionsValid(o) ==
    /\ o.sellThreshold < 0 /\ o.buyThreshold > 0
    /\ ~(o.buyThreshold > One \/ o.sellThreshold < -One)

MomentumInitState ==
    [history |-> <<>>, pendingSignal |-> Neutral, lastSignal |-> Neutral,
     hysteresisBuffer |-> 0, persistenceSteps |-> 0, wilder |-> WilderInitState]

computeAdaptiveZWindow(o, history) ==
    IF ~o.adaptive \/ Len(history) < o.zWindow THEN o.zWindow
    ELSE AdaptiveSize(LastN(history, o.zWindow), o)

\* floor(sqrt(x)) for 0 <= x < (One + 1)^2
Isqrt(x) == CHOOSE k \in 0..One : k * k <= x /\ x < (k + 1) * (k + 1)

\* computeZScore on a long enough history: clamp(z / 3, -1, 1) with
\* z = (latest - mean) / sqrt(max(variance, 1e-6)), in units of 1/One.
\* With whole score points, variance < 1e-6 only when it is 0, and then
\* latest = mean and z = 0.
ZScoreNorm(recent) ==
    LET n == Len(recent)
        V == ScaledVariance(recent)
        A == n * recent[n] - SumSeq(recent)
    IN  IF V = 0 THEN 0
        ELSE IF A * A >= 9 * V THEN (IF A > 0 THEN One ELSE -One)
        ELSE (IF A >= 0 THEN 1 ELSE -1) * Isqrt((A * A * One * One) \div (9 * V))

\* wRSI * rsi + wZ * z with the weights normalised to sum to 1
Composite(o, rsi, z) ==
    LET wSum == o.rsiWeight + o.zWeight
    IN  IF wSum > 0 THEN (o.rsiWeight * rsi + o.zWeight * z) \div wSum
        ELSE (rsi + z) \div 2

Intent(o, composite) ==
    IF composite >= o.buyThreshold THEN Buy
    ELSE IF composite <= o.sellThreshold THEN Sell
    ELSE Neutral

\* hysteresisBuffer >= hysteresisCount && lastSignal !== newSignal
MomentumFlipConfirmed_OneShort(o, buffer, lastSignal, newSignal) ==
    buffer >= o.hysteresisCount - 1 /\ lastSignal # newSignal

MomentumFlipConfirmed_AnyDirection(o, buffer, lastSignal, newSignal) ==
    buffer >= o.hysteresisCount

MomentumFlipConfirmed(o, buffer, lastSignal, newSignal) ==
    buffer >= o.hysteresisCount /\ lastSignal # newSignal

\* applyHysteresis: the fields it writes and the signal it returns
applyHysteresis(o, m, newSignal) ==
    IF newSignal = Neutral
    THEN [pendingSignal |-> Neutral, hysteresisBuffer |-> 0,
          lastSignal |-> m.lastSignal, persistenceSteps |-> m.persistenceSteps,
          signal |-> Neutral]
    ELSE LET buffer == IF m.pendingSignal = newSignal THEN m.hysteresisBuffer + 1 ELSE 1
         IN  IF MomentumFlipConfirmed(o, buffer, m.lastSignal, newSignal)
             THEN [pendingSignal |-> Neutral, hysteresisBuffer |-> 0,
                   lastSignal |-> newSignal, persistenceSteps |-> 0,
                   signal |-> newSignal]
             ELSE [pendingSignal |-> newSignal, hysteresisBuffer |-> buffer,
                   lastSignal |-> m.lastSignal, persistenceSteps |-> m.persistenceSteps,
                   signal |-> Neutral]

\* The result when the hysteresis returns Neutral
MomentumNeutralResult_KeepConfidence(confidence) == Result(Neutral, confidence)

MomentumNeutralResult(confidence) == Result(Neutral, 0)

\* MomentumCompositeAnalyzer.update: the new state, the result, and what was
\* observed (the z-window used, the intent or "none").
MomentumUpdate(o, m, score) ==
    LET pushed == Append(m.history, score)
        currentZWindow == computeAdaptiveZWindow(o, pushed)
        maxHistory == Max(o.rsiPeriod, currentZWindow) * 2
        history == CapHistory(pushed, maxHistory)
        rsiOut == WilderUpdate(Max(1, o.rsiPeriod), m.wilder, score)
        zWindow == computeAdaptiveZWindow(o, history)
        z == ZScoreNorm(LastN(history, zWindow))
        composite == Composite(o, rsiOut.rsiNorm, z)
        intent == Intent(o, composite)
        hyst == applyHysteresis(o, m, intent)
        steps == IF intent # Neutral /\ intent = hyst.lastSignal
                 THEN hyst.persistenceSteps + 1
                 ELSE IF intent # Neutral THEN 1 ELSE 0
        base == Min(One, Abs(composite))
        confidence == IF intent # Neutral
                      THEN (base * ExpNeg(o.confidenceDecayRate, steps)) \div One
                      ELSE base
        early == [m EXCEPT !.history = history, !.wilder = rsiOut.state]
    IN  IF rsiOut.isNull
        THEN [state |-> early, result |-> NeutralResult, window |-> currentZWindow,
              intent |-> "none", composite |-> 0, branch |-> "rsi_null"]
        ELSE IF Len(history) < zWindow
        THEN [state |-> early, result |-> NeutralResult, window |-> zWindow,
              intent |-> "none", composite |-> 0, branch |-> "z_null"]
        ELSE [state |-> [history |-> history, pendingSignal |-> hyst.pendingSignal,
                         lastSignal |-> hyst.lastSignal,
                         hysteresisBuffer |-> hyst.hysteresisBuffer,
                         persistenceSteps |-> steps, wilder |-> rsiOut.state],
              result |-> IF hyst.signal = Neutral THEN MomentumNeutralResult(confidence)
                         ELSE Result(hyst.signal, confidence),
              window |-> zWindow, intent |-> intent, composite |-> composite,
              branch |-> IF hyst.signal # Neutral THEN "flip" ELSE "held"]

(***************************************************************************)
(* No replay is running.                                                   *)
(***************************************************************************)
ReplayIdle ==
    /\ rpMode = "none"
    /\ frames = <<>>
    /\ rpProcs = <<>>
    /\ bufferedResults = {}
    /\ nextToProcess = 0
    /\ processingQueue = FALSE
    /\ cursor = 0
    /\ feeding = {}
    /\ fedLog = <<>>
    /\ logFile = <<>>
    /\ analysed = <<>>

(***************************************************************************)
(* MovingAverageAnalyzer (moving-average crossover analyzer) with          *)
(* adaptivity disabled: computeAdaptiveWindows returns the configured      *)
(* windows.  The confidence of a result is computed from the averages      *)
(* after the hysteresis and is written to no field; the model keeps the    *)
(* returned signal and the fields.                                         *)
(***************************************************************************)
MovingAverageInitState ==
    [history |-> <<>>, lastTradeSignal |-> Neutral, pendingTradeSignal |-> Neutral,
     hysteresisBuffer |-> 0, persistenceSteps |-> 0]

NoMaTick ==
    [constructed |-> FALSE, intent |-> "none", previousIntent |-> "none",
     tradeSignal |-> Neutral]

\* history.slice(0, -1)
DropLast(history) == SubSeq(history, 1, Len(history) - 1)

\* movingAverage(history, short) > movingAverage(history, long), the two
\* averages compared as fractions
ShortAboveLong(history, short, long) ==
    SumSeq(LastN(history, short)) * long > SumSeq(LastN(history, long)) * short

detectSignal_Level(wasBullish, isBullish) ==
    IF isBullish THEN Buy ELSE Sell

detectSignal(wasBullish, isBullish) ==
    IF isBullish /\ ~wasBullish THEN Buy
    ELSE IF ~isBullish /\ wasBullish THEN Sell
    ELSE Neutral

\* MovingAverageAnalyzer.applyHysteresis: the fields it writes and the signal
\* it returns
MaApplyHysteresis(o, m, newTradeSignal) ==
    IF newTradeSignal = Neutral
    THEN [state |-> [m EXCEPT !.pendingTradeSignal = Neutral, !.hysteresisBuffer = 0],
          signal |-> Neutral]
    ELSE LET buffer == IF m.pendingTradeSignal = newTradeSignal
                       THEN m.hysteresisBuffer + 1 ELSE 1
         IN  IF buffer >= o.hysteresisCount /\ m.lastTradeSignal # newTradeSignal
             THEN [state |-> [m EXCEPT !.lastTradeSignal = newTradeSignal,
                                       !.hysteresisBuffer = 0,
                                       !.pendingTradeSignal = Neutral,
                                       !.persistenceSteps = 0],
                   signal |-> newTradeSignal]
             ELSE [state |-> [m EXCEPT !.pendingTradeSignal = newTradeSignal,
                                       !.hysteresisBuffer = buffer],
                   signal |-> Neutral]

\* MovingAverageAnalyzer.update with adaptive = false: the new state, the
\* intent ("none" while the history is shorter than long + 1) and the signal
MovingAverageUpdate(o, m, score) ==
    LET pushed == Append(m.history, score)
        short == o.shortWindow
        long == o.longWindow
        history == CapHistory(pushed, long * 2)
        intent == detectSignal(ShortAboveLong(DropLast(history), short, long),
                               ShortAboveLong(history, short, long))
        h == MaApplyHysteresis(o, [m EXCEPT !.history = history], intent)
        steps == IF intent # Neutral /\ intent = h.state.lastTradeSignal
                 THEN h.state.persistenceSteps + 1
                 ELSE IF intent # Neutral THEN 1 ELSE 0
    IN  IF Len(history) < long + 1
        THEN [state |-> [m EXCEPT !.history = history], intent |-> "none",
              tradeSignal |-> Neutral]
        ELSE [state |-> [h.state EXCEPT !.persistenceSteps = steps],
              intent |-> intent, tradeSignal |-> h.signal]

(***************************************************************************)
(* No HeatmapAnalyzer has been constructed on its own.                     *)
(***************************************************************************)
HmIdle ==
    /\ hmConfigured = [minSaturation |-> 500, autoTuneSPercentile |-> 5,
                        autoTuneSMinFloor |-> 100]
    /\ hmOptions = hmConfigured
    /\ hmFrames = <<>>
    /\ hmCall = [op |-> "none"]

(***************************************************************************)
(* No moving-average crossover analyzer has been constructed.              *)
(***************************************************************************)
MaIdle ==
    /\ HmIdle
    /\ maOptions = [shortWindow |-> 1, longWindow |-> 2, hysteresisCount |-> 1,
                     adaptive |-> FALSE]
    /\ maState = MovingAverageInitState
    /\ maTick = NoMaTick
    /\ maCalls = 0

(***************************************************************************)
(* No manager service is distributing frames.                              *)
(***************************************************************************)
TkIdle ==
    /\ MaIdle
    /\ tkControllers = <<>>
    /\ tkService = [running |-> FALSE, ticks |-> 0]

(***************************************************************************)
(* No oscillator engine has been constructed on its own.                   *)
(***************************************************************************)
WmIdle ==
    /\ TkIdle
    /\ wmPeriod = 0
    /\ wmState = WilderInitState
    /\ wmOut = [isNull |-> TRUE, rsiNorm |-> 0, rising |-> TRUE, falling |-> TRUE,
                minStep |-> 0]
    /\ wmCalls = 0

(***************************************************************************)
(* No call has been made on a directly driven filter.                      *)
(***************************************************************************)
DfIdle ==
    /\ WmIdle
    /\ dfOptions = [alpha |-> 100, maxJump |-> 200, freezeThreshold |-> 0]
    /\ dfFilter = [lastFiltered |-> 0, initialized |-> FALSE, residual |-> 0]
    /\ dfSkipped = dfFilter
    /\ dfFresh = [resets |-> 0, filter |-> dfFilter, wiped |-> dfFilter]
    /\ dfAccepted = [any |-> FALSE, sinceReset |-> FALSE, out |-> 0, rejected |-> 0,
                     first |-> 0, constant |-> TRUE, lo |-> 0, hi |-> 0]
    /\ dfCall = [op |-> "none"]
    /\ dfCalls = 0

(***************************************************************************)
(* No analyzer has been constructed on its own.                            *)
(***************************************************************************)
CtorIdle ==
    /\ DfIdle
    /\ ctorCall = [called |-> FALSE]
    /\ ctorInstance = [kind |-> "none"]

(***************************************************************************)
(* No controller has been added to a manager service.                      *)
(***************************************************************************)
SessIdle ==
    /\ CtorIdle
    /\ sessOptions = <<>>
    /\ sessControllers = <<>>
    /\ sessAlone = <<>>
    /\ sessTick = [called |-> FALSE]

(***************************************************************************)
(* No pair of controllers is being compared.                               *)
(***************************************************************************)
TwinIdle ==
    /\ SessIdle
    /\ twinOptions = <<>>
    /\ twinA = <<>>
    /\ twinB = <<>>
    /\ twinInputs = <<>>
    /\ twinOutA = <<>>
    /\ twinOutB = <<>>
    /\ wallClock = 0

(***************************************************************************)
(* No image-analysis agent has been created.                               *)
(***************************************************************************)
AgentIdle ==
    /\ TwinIdle
    /\ disposed = FALSE
    /\ childState = "none"
    /\ rlClosed = FALSE
    /\ agCalls = <<>>
    /\ agListeners = {}
    /\ agStdin = <<>>
    /\ agStdout = <<>>

(***************************************************************************)
(* No live session is running.                                             *)
(***************************************************************************)
LiveIdle ==
    /\ intervalId = FALSE
    /\ liveTicks = <<>>
    /\ liveClock = 0
    /\ liveFed = <<>>

(***************************************************************************)
(* DeltaFilterAnalyzer (Noise Filter).  Scores, maxJump and                *)
(* freezeThreshold are whole score points; alpha counts in units of 1/One. *)
(***************************************************************************)
Sign(x) == IF x > 0 THEN 1 ELSE IF x < 0 THEN -1 ELSE 0

\* The constructor's clamps; the options offered have alpha at least one
\* unit, above the constructor's floor of 1e-6.
DeltaFilterConstruct(options) ==
    [alpha |-> Min(One, Max(1, options.alpha)),
     maxJump |-> Max(0, options.maxJump),
     freezeThreshold |-> Max(0, options.freezeThreshold)]

DeltaFilterInitState == [lastFiltered |-> 0, initialized |-> FALSE, residual |-> 0]

DeltaFilterSeed_Smoothed(o, rawScore) ==
    [state |-> [lastFiltered |-> Sign(rawScore) * ((o.alpha * Abs(rawScore)) \div One),
                initialized |-> TRUE,
                residual |-> rawScore],
     filtered |-> Sign(rawScore) * ((o.alpha * Abs(rawScore)) \div One),
     froze |-> FALSE, maxJumpHit |-> FALSE]

\* The first accepted sample seeds the filter
DeltaFilterSeed(o, rawScore) ==
    [state |-> [lastFiltered |-> rawScore, initialized |-> TRUE, residual |-> 0],
     filtered |-> rawScore, froze |-> FALSE, maxJumpHit |-> FALSE]

FilterDelta_FromZero(f, rawScore) == rawScore

\* const delta = rawScore - previousFiltered
FilterDelta(f, rawScore) == rawScore - f.lastFiltered

FrozenState_DropsDelta(f, residualBefore) == f

\* Inside the deadband only this.residual = residualBefore has been assigned
FrozenState(f, residualBefore) == [f EXCEPT !.residual = residualBefore]

AppliedStep_Uncapped(o, desiredStep) == desiredStep

\* const appliedStep = Math.sign(desiredStep) * Math.min(Math.abs(desiredStep), maxJump)
AppliedStep(o, desiredStep) == Sign(desiredStep) * Min(Abs(desiredStep), o.maxJump)

\* DeltaFilterAnalyzer.update on a finite raw score
DeltaFilterUpdate(o, f, rawScore) ==
    LET previousFiltered == f.lastFiltered
        delta == FilterDelta(f, rawScore)
        residualBefore == f.residual + delta
        desiredStep == Sign(residualBefore) * ((o.alpha * Abs(residualBefore)) \div One)
        appliedStep == AppliedStep(o, desiredStep)
        appliedInputDelta == Sign(appliedStep) * ((Abs(appliedStep) * One) \div o.alpha)
    IN  IF ~f.initialized
        THEN DeltaFilterSeed(o, rawScore)
        ELSE IF Abs(residualBefore) < o.freezeThreshold
        THEN [state |-> FrozenState(f, residualBefore),
              filtered |-> f.lastFiltered, froze |-> TRUE, maxJumpHit |-> FALSE]
        ELSE [state |-> [lastFiltered |-> previousFiltered + appliedStep,
                         initialized |-> TRUE,
                         residual |-> residualBefore - appliedInputDelta],
              filtered |-> previousFiltered + appliedStep, froze |-> FALSE,
              maxJumpHit |-> Abs(appliedStep) < Abs(desiredStep)]

NoFilterTick ==
    [called |-> FALSE, rawScore |-> 0, filteredScore |-> 0, froze |-> FALSE,
     maxJumpHit |-> FALSE]

FilterPassThrough == [alpha |-> One, maxJump |-> 200, freezeThreshold |-> 0]

FilterIdle ==
    /\ filterOptions = DeltaFilterConstruct(FilterPassThrough)
    /\ deltaFilterAnalyzer = DeltaFilterInitState
    /\ filterTick = NoFilterTick

(***************************************************************************)
(* The two classifiers side by side: TradeController feeds the filtered    *)
(* score of a tick to SlopeSignAnalyzer.update and then to                 *)
(* MomentumCompositeAnalyzer.update.                                       *)
(***************************************************************************)
MaxTicks == 6

SlopeBase ==
    [slopeWindow |-> 2, minSlopeMagnitude |-> 50, hysteresisCount |-> 2,
     adaptive |-> FALSE, adaptiveMinWindow |-> 2, adaptiveMaxWindow |-> 3,
     adaptiveSensitivity |-> 1, adaptiveVolScale |-> 1,
     confidenceDecayRate |-> 1, confidenceMultiplier |-> 150]

MomentumBase ==
    [rsiPeriod |-> 2, zWindow |-> 2, buyThreshold |-> 30, sellThreshold |-> -30,
     hysteresisCount |-> 2, rsiWeight |-> 1, zWeight |-> 1,
     adaptive |-> FALSE, adaptiveMinWindow |-> 2, adaptiveMaxWindow |-> 3,
     adaptiveSensitivity |-> 1, adaptiveVolScale |-> 1, confidenceDecayRate |-> 1]

\* The option presets a controller is built from.
ClsOptionChoices ==
    { [slope |-> SlopeBase, momentum |-> MomentumBase],
      [slope |-> [SlopeBase EXCEPT !.adaptive = TRUE, !.adaptiveMaxWindow = 4],
       momentum |-> [MomentumBase EXCEPT !.adaptive = TRUE, !.adaptiveMaxWindow = 4]],
      [slope |-> [SlopeBase EXCEPT !.hysteresisCount = 3, !.confidenceDecayRate = 0],
       momentum |-> [MomentumBase EXCEPT !.hysteresisCount = 3, !.zWeight = 0]],
      [slope |-> [SlopeBase EXCEPT !.hysteresisCount = 0],
       momentum |-> [MomentumBase EXCEPT !.hysteresisCount = 1, !.rsiWeight = 0]] }

\* Filtered scores offered to the classifiers (score points)
FilteredScores == {0, 1, 2, 3}

\* The run of observations (directions, or intents) a classifier has made:
\* the value last observed, how many times in a row it has been observed
\* (0 for the neutral value), and how many observations in a row have each
\* replaced a different non-neutral value.  A tick with too little history
\* observes nothing and leaves the run as it is.
NoRun == [value |-> "none", count |-> 0, alternations |-> 0]

NextRun(run, observed, neutral) ==
    IF observed = "none" THEN run
    ELSE IF observed = neutral THEN [value |-> neutral, count |-> 0, alternations |-> 0]
    ELSE IF observed = run.value
    THEN [value |-> observed, count |-> run.count + 1, alternations |-> 0]
    ELSE [value |-> observed, count |-> 1,
          alternations |-> IF run.value \in {"none", neutral} THEN 0
                           ELSE run.alternations + 1]

\* The non-Neutral results a classifier has returned so far: the last one,
\* how many, and how many ticks ago
NoEmission == [last |-> Neutral, count |-> 0, ticksSince |-> 0]

NextEmission(emitted, result) ==
    IF result.tradeSignal # Neutral
    THEN [last |-> result.tradeSignal, count |-> emitted.count + 1, ticksSince |-> 0]
    ELSE [emitted EXCEPT !.ticksSince = IF emitted.count > 0 THEN @ + 1 ELSE 0]

NoClsTick ==
    [slope |-> [result |-> NeutralResult, direction |-> "none", window |-> 0,
                branch |-> "init", run |-> NoRun, emitted |-> NoEmission],
     momentum |-> [result |-> NeutralResult, intent |-> "none", window |-> 0,
                   branch |-> "init", run |-> NoRun, composite |-> 0,
                   persistenceSteps |-> 0, emitted |-> NoEmission]]

ClsIdle ==
    /\ clsOptions = [slope |-> SlopeBase, momentum |-> MomentumBase]
    /\ slopeSignAnalyzer = SlopeInitState
    /\ momentumCompositeAnalyzer = MomentumInitState
    /\ clsTick = NoClsTick
    /\ clsTicks = 0

TsaIdle ==
    /\ tsaOptions = CHOOSE o \in TsaOptionChoices : TsaOptionsValid(o)
    /\ tsaHistory = <<>>
    /\ lastEmittedSignal = Neutral
    /\ tsaTick = NoTick

ClsInit ==
    /\ TsaIdle
    /\ LiveIdle
    /\ AgentIdle
    /\ FilterIdle
    /\ ReplayIdle
    /\ clsOptions \in {o \in ClsOptionChoices : MomentumOptionsValid(o.momentum)}
    /\ slopeSignAnalyzer = SlopeInitState
    /\ momentumCompositeAnalyzer = MomentumInitState
    /\ clsTick = NoClsTick
    /\ clsTicks = 0

\* What a tick shows of the two classifiers
ClsObservation(prev, su, mu) ==
    [slope |-> [result |-> su.result, direction |-> su.direction,
                window |-> su.window, branch |-> su.branch,
                run |-> NextRun(prev.slope.run, su.direction, Flat),
                emitted |-> NextEmission(prev.slope.emitted, su.result)],
     momentum |-> [result |-> mu.result, intent |-> mu.intent,
                   window |-> mu.window, branch |-> mu.branch,
                   run |-> NextRun(prev.momentum.run, mu.intent, Neutral),
                   composite |-> mu.composite,
                   persistenceSteps |-> mu.state.persistenceSteps,
                   emitted |-> NextEmission(prev.momentum.emitted, mu.result)]]

\* One tick: the same filtered score goes to both classifiers.
ClsUpdateAction ==
    /\ clsTicks < MaxTicks
    /\ \E score \in FilteredScores :
        \E su \in {SlopeUpdate(clsOptions.slope, slopeSignAnalyzer, score)},
           mu \in {MomentumUpdate(clsOptions.momentum, momentumCompositeAnalyzer, score)} :
            /\ slopeSignAnalyzer' = su.state
            /\ momentumCompositeAnalyzer' = mu.state
            /\ clsTick' = ClsObservation(clsTick, su, mu)
            /\ clsTicks' = clsTicks + 1
            /\ UNCHANGED <<clsOptions, tsaVars, filterVars, replayVars, liveVars,
                           agentVars, twinVars, sessVars, ctorVars, dfVars, wmVars,
                   tkVars, maVars, hmVars>>

ClsNext == ClsUpdateAction

SpecClassifiers == ClsInit /\ [][ClsNext]_vars

TsaInit ==
    /\ ClsIdle
    /\ LiveIdle
    /\ AgentIdle
    /\ FilterIdle
    /\ ReplayIdle
    /\ tsaOptions \in {o \in TsaOptionChoices : TsaOptionsValid(o)}
    /\ tsaHistory = <<>>
    /\ lastEmittedSignal = Neutral
    /\ tsaTick = NoTick

\* One call of TradeSignalAnalyzer.update.
TsaUpdateAction ==
    \E input \in TsaInputs :
        \E u \in {TsaUpdate(tsaOptions, tsaHistory, lastEmittedSignal, input)} :
            /\ tsaHistory' = u.history
            /\ lastEmittedSignal' = u.last
            /\ tsaTick' = [called |-> TRUE,
                           sentimentScore |-> input.sentimentScore,
                           before |-> lastEmittedSignal,
                           consensusSignal |-> u.consensusSignal,
                           result |-> u.result,
                           scoreNum |-> u.scoreNum, scoreDen |-> u.scoreDen,
                           reason |-> u.reason,
                           neutralSince |-> NeutralSince(tsaTick, u)]
            /\ UNCHANGED <<tsaOptions, clsVars, filterVars, replayVars, liveVars,
                           agentVars, twinVars, sessVars, ctorVars, dfVars, wmVars,
                   tkVars, maVars, hmVars>>

TsaNext == TsaUpdateAction

SpecTSA == TsaInit /\ [][TsaNext]_vars

(***************************************************************************)
(* The pipeline of one TradeController: per tick, the raw score goes       *)
(* through the Noise Filter, the filtered score to both classifiers, and   *)
(* their two results with the raw score to the Consensus Fusion Analyzer.  *)
(***************************************************************************)
\* What the controller hands to TradeSignalAnalyzer.update
TradeSignals(slopeSignTradeSignal, momentumCompositeTradeSignal, rawScore) ==
    [slopeSignTradeSignal |-> slopeSignTradeSignal,
     momentumCompositeTradeSignal |-> momentumCompositeTradeSignal,
     sentimentScore |-> rawScore]

ControllerInitState ==
    [deltaFilter |-> DeltaFilterInitState, slope |-> SlopeInitState,
     momentum |-> MomentumInitState, tsaHistory |-> <<>>,
     lastEmittedSignal |-> Neutral]

\* The analyzer updates of analyzeRawHeatmap, in the controller's order:
\* each stage's outcome is computed once and handed to the next.
analyzeRawHeatmap(o, c, rawScore) ==
    LET Outcome(fu, su, mu, tu) ==
            [state |-> [deltaFilter |-> fu.state, slope |-> su.state,
                        momentum |-> mu.state, tsaHistory |-> tu.history,
                        lastEmittedSignal |-> tu.last],
             fu |-> fu, su |-> su, mu |-> mu, tu |-> tu]
        Fused(fu, su, mu) ==
            { Outcome(fu, su, mu, tu) :
                tu \in {TsaUpdate(o.tsa, c.tsaHistory, c.lastEmittedSignal,
                                  TradeSignals(su.result, mu.result, rawScore))} }
        Classified(fu) ==
            UNION { Fused(fu, su, mu) :
                      su \in {SlopeUpdate(o.slope, c.slope, fu.filtered)},
                      mu \in {MomentumUpdate(o.momentum, c.momentum, fu.filtered)} }
        outcomes ==
            UNION { Classified(fu) :
                      fu \in {DeltaFilterUpdate(o.filter, c.deltaFilter, rawScore)} }
    IN  CHOOSE t \in outcomes : TRUE

\* Raw sentiment scores offered per tick (score points)
RawScores == {-70, -69, 69, 70}

FilterClamped == [alpha |-> 150, maxJump |-> 10, freezeThreshold |-> 2]

TsaBase ==
    [windowSize |-> 1, buyThreshold |-> 60, sellThreshold |-> -60,
     fusionMode |-> "weighted", sentimentBuyThreshold |-> -50,
     sentimentSellThreshold |-> 50]

\* The presets a controller is built from
ControllerPresets ==
    { [filter |-> FilterPassThrough, tsa |-> TsaBase,
       slope |-> SlopeBase, momentum |-> MomentumBase],
      [filter |-> FilterClamped, tsa |-> [TsaBase EXCEPT !.windowSize = 2],
       slope |-> [SlopeBase EXCEPT !.adaptive = TRUE, !.adaptiveMaxWindow = 4,
                                   !.adaptiveVolScale = 10],
       momentum |-> [MomentumBase EXCEPT !.adaptive = TRUE, !.adaptiveMaxWindow = 4,
                                         !.adaptiveVolScale = 10]],
      [filter |-> FilterPassThrough, tsa |-> [TsaBase EXCEPT !.fusionMode = "unanimous"],
       slope |-> [SlopeBase EXCEPT !.hysteresisCount = 3, !.confidenceDecayRate = 0],
       momentum |-> [MomentumBase EXCEPT !.hysteresisCount = 3, !.zWeight = 0]],
      [filter |-> FilterPassThrough,
       tsa |-> [TsaBase EXCEPT !.windowSize = 2, !.fusionMode = "unanimous"],
       slope |-> [SlopeBase EXCEPT !.hysteresisCount = 0],
       momentum |-> [MomentumBase EXCEPT !.hysteresisCount = 1, !.rsiWeight = 0]] }

PipelineOptions ==
    [filter |-> filterOptions, slope |-> clsOptions.slope,
     momentum |-> clsOptions.momentum, tsa |-> tsaOptions]

Controller ==
    [deltaFilter |-> deltaFilterAnalyzer, slope |-> slopeSignAnalyzer,
     momentum |-> momentumCompositeAnalyzer, tsaHistory |-> tsaHistory,
     lastEmittedSignal |-> lastEmittedSignal]

\* A controller constructed from one of the presets
ControllerConstructed(presets) ==
    /\ \E p \in presets :
         /\ TsaOptionsValid(p.tsa)
         /\ MomentumOptionsValid(p.momentum)
         /\ filterOptions = DeltaFilterConstruct(p.filter)
         /\ clsOptions = [slope |-> p.slope, momentum |-> p.momentum]
         /\ tsaOptions = p.tsa
    /\ deltaFilterAnalyzer = DeltaFilterInitState
    /\ filterTick = NoFilterTick
    /\ slopeSignAnalyzer = SlopeInitState
    /\ momentumCompositeAnalyzer = MomentumInitState
    /\ clsTick = NoClsTick
    /\ clsTicks = 0
    /\ tsaHistory = <<>>
    /\ lastEmittedSignal = Neutral
    /\ tsaTick = NoTick

Init ==
    /\ ReplayIdle
    /\ LiveIdle
    /\ AgentIdle
    /\ ControllerConstructed(ControllerPresets)

pipelineOptionVars == <<filterOptions, clsOptions, tsaOptions>>

pipelineStateVars ==
    <<deltaFilterAnalyzer, slopeSignAnalyzer, momentumCompositeAnalyzer, tsaHistory,
      lastEmittedSignal, filterTick, clsTick, tsaTick, clsTicks>>

\* The controller's analyzers take one raw score.
PipelineUpdate(rawScore) ==
    \E t \in {analyzeRawHeatmap(PipelineOptions, Controller, rawScore)} :
        /\ deltaFilterAnalyzer' = t.state.deltaFilter
        /\ slopeSignAnalyzer' = t.state.slope
        /\ momentumCompositeAnalyzer' = t.state.momentum
        /\ tsaHistory' = t.state.tsaHistory
        /\ lastEmittedSignal' = t.state.lastEmittedSignal
        /\ filterTick' = [called |-> TRUE, rawScore |-> rawScore,
                          filteredScore |-> t.fu.filtered, froze |-> t.fu.froze,
                          maxJumpHit |-> t.fu.maxJumpHit]
        /\ clsTick' = ClsObservation(clsTick, t.su, t.mu)
        /\ tsaTick' = [called |-> TRUE, sentimentScore |-> rawScore,
                       before |-> lastEmittedSignal,
                       consensusSignal |-> t.tu.consensusSignal,
                       result |-> t.tu.result,
                       scoreNum |-> t.tu.scoreNum, scoreDen |-> t.tu.scoreDen,
                       reason |-> t.tu.reason,
                       neutralSince |-> NeutralSince(tsaTick, t.tu)]
        /\ clsTicks' = clsTicks + 1

\* One tick of the pipeline.
Tick ==
    /\ clsTicks < MaxTicks
    /\ \E rawScore \in RawScores : PipelineUpdate(rawScore)
    /\ UNCHANGED <<pipelineOptionVars, replayVars, liveVars, agentVars, twinVars,
                   sessVars, ctorVars, dfVars, wmVars, tkVars, maVars, hmVars>>

Next == Tick

Spec == Init /\ [][Next]_vars

(***************************************************************************)
(* Replay of recorded frames into one TradeController.  Frame indices      *)
(* count from 0 as in the code; the frame at index i is frames[i + 1].     *)
(***************************************************************************)
MaxFrames == 3
MaxWorkers == 3

\* Timestamps named by the recorded frame files
Timestamps == 1 .. MaxFrames

\* What readdir can return: the files of a directory in any order
Directories ==
    { q \in UNION { [1 .. n -> Timestamps] : n \in 0 .. MaxFrames } :
        \A i, j \in DOMAIN q : i # j => q[i] # q[j] }

Range(q) == { q[i] : i \in DOMAIN q }

\* frames.sort((a, b) => a.timestamp - b.timestamp)
RECURSIVE SortByTimestamp(_)
SortByTimestamp(q) ==
    IF q = <<>> THEN <<>>
    ELSE LET least == CHOOSE t \in Range(q) : \A u \in Range(q) : t <= u
         IN  <<least>> \o SortByTimestamp(SelectSeq(q, LAMBDA t : t # least))

Proc(pc, index, lines) == [pc |-> pc, index |-> index, lines |-> lines]

\* if (processingQueue) return
QueueBusy == processingQueue

\* while (bufferedResults.has(nextToProcess))
ReadyIndex_Any(buffered, next) == buffered

ReadyIndex(buffered, next) == IF next \in buffered THEN {next} ELSE {}

\* replayFromHeatmaps up to the start of the workers (or the early return),
\* and processHeatmapsAsynchronously up to the start of its tasks
ReplayInit ==
    /\ LiveIdle
    /\ AgentIdle
    /\ TsaIdle
    /\ ClsIdle
    /\ FilterIdle
    /\ \E dir \in Directories, concurrencyLimit \in 0 .. MaxWorkers :
        \/ /\ rpMode = "workers"
           /\ frames = SortByTimestamp(dir)
           /\ rpProcs =
                IF Len(dir) = 0 THEN [p \in {0} |-> Proc("done", 0, <<>>)]
                ELSE [p \in 0 .. Min(Max(1, concurrencyLimit), Len(dir)) |->
                        IF p = 0 THEN Proc("await", 0, <<>>) ELSE Proc("next", 0, <<>>)]
        \/ /\ rpMode = "all"
           /\ concurrencyLimit = 0
           /\ frames = dir
           /\ rpProcs = [p \in 0 .. Len(dir) |->
                           IF p = 0 THEN Proc("await", 0, <<>>)
                           ELSE Proc("analyzing", p - 1, <<>>)]
    /\ bufferedResults = {}
    /\ nextToProcess = 0
    /\ processingQueue = FALSE
    /\ cursor = 0
    /\ feeding = {}
    /\ fedLog = <<>>
    /\ logFile = <<>>
    /\ analysed = <<>>

\* The call of getSentimentScoreAnalysisReports with the score of the frame
\* at index: the controller's analyzers have now been fed the scores of the
\* frames of fedLog, in that order.
BeginFeed(index) == fedLog' = Append(fedLog, frames[index + 1])

\* processAvailableResults from its loop condition on, run by p: either the
\* next frame is taken out of the buffer and fed (the loop then waits for the
\* feed to return), or the lines are written and the invocation returns.
RunLoop(p, buffered, next, lines, fedNow, resume) ==
    /\ nextToProcess' = next
    /\ IF ReadyIndex(buffered, next) # {}
       THEN \E index \in ReadyIndex(buffered, next) :
              /\ bufferedResults' = buffered \ {index}
              /\ BeginFeed(index)
              /\ feeding' = fedNow \cup {frames[index + 1]}
              /\ processingQueue' = TRUE
              /\ rpProcs' = [rpProcs EXCEPT ![p] = Proc("feeding", index, lines)]
              /\ UNCHANGED logFile
       ELSE /\ bufferedResults' = buffered
            /\ feeding' = fedNow
            /\ logFile' = logFile \o lines
            /\ processingQueue' = FALSE
            /\ rpProcs' = [rpProcs EXCEPT ![p] = Proc(resume, 0, <<>>)]
            /\ UNCHANGED fedLog

getNextIndex_NoAdvance(current, totalFrames) ==
    IF current >= totalFrames THEN [null |-> TRUE, index |-> 0, cursor |-> current]
    ELSE [null |-> FALSE, index |-> current, cursor |-> current]

\* getNextIndex: the index handed out (or null) and the cursor afterwards
getNextIndex(current, totalFrames) ==
    IF current >= totalFrames THEN [null |-> TRUE, index |-> 0, cursor |-> current]
    ELSE [null |-> FALSE, index |-> current, cursor |-> current + 1]

\* worker: getNextIndex, then dispatch the frame or finish
WorkerNext(w) ==
    /\ rpMode = "workers" /\ w # 0 /\ rpProcs[w].pc = "next"
    /\ LET got == getNextIndex(cursor, Len(frames))
       IN  /\ rpProcs' = [rpProcs EXCEPT ![w] =
                            IF got.null THEN Proc("done", 0, <<>>)
                            ELSE Proc("analyzing", got.index, <<>>)]
           /\ cursor' = got.cursor
    /\ UNCHANGED <<rpMode, frames, bufferedResults, nextToProcess, processingQueue,
                   feeding, fedLog, logFile, analysed>>
    /\ UNCHANGED <<pipelineVars, liveVars, agentVars, twinVars, sessVars, ctorVars, dfVars,
                   wmVars, tkVars, maVars, hmVars>>

\* dispatchFramePython after the analysis returned: buffer the result and
\* call processAvailableResults
WorkerAnalysed(w) ==
    /\ rpMode = "workers" /\ w # 0 /\ rpProcs[w].pc = "analyzing"
    /\ analysed' = Append(analysed, frames[rpProcs[w].index + 1])
    /\ IF QueueBusy
       THEN /\ bufferedResults' = bufferedResults \cup {rpProcs[w].index}
            /\ rpProcs' = [rpProcs EXCEPT ![w] = Proc("next", 0, <<>>)]
            /\ UNCHANGED <<nextToProcess, processingQueue, feeding, fedLog, logFile>>
       ELSE RunLoop(w, bufferedResults \cup {rpProcs[w].index}, nextToProcess,
                    <<>>, feeding, "next")
    /\ UNCHANGED <<rpMode, frames, cursor>>
    /\ UNCHANGED <<pipelineVars, liveVars, agentVars, twinVars, sessVars, ctorVars, dfVars,
                   wmVars, tkVars, maVars, hmVars>>

\* The feed returned: push the line, advance, and go round the loop
FeedDone(p) ==
    /\ rpMode = "workers" /\ rpProcs[p].pc = "feeding"
    /\ RunLoop(p, bufferedResults, nextToProcess + 1,
               Append(rpProcs[p].lines, frames[rpProcs[p].index + 1]),
               feeding \ {frames[rpProcs[p].index + 1]},
               IF p = 0 THEN "done" ELSE "next")
    /\ UNCHANGED <<rpMode, frames, cursor, analysed>>
    /\ UNCHANGED <<pipelineVars, liveVars, agentVars, twinVars, sessVars, ctorVars, dfVars,
                   wmVars, tkVars, maVars, hmVars>>

\* After Promise.all(workers): the final processAvailableResults
MainDrain ==
    /\ rpMode = "workers" /\ rpProcs[0].pc = "await"
    /\ \A w \in DOMAIN rpProcs \ {0} : rpProcs[w].pc = "done"
    /\ IF QueueBusy
       THEN /\ rpProcs' = [rpProcs EXCEPT ![0] = Proc("done", 0, <<>>)]
            /\ UNCHANGED <<bufferedResults, nextToProcess, processingQueue, feeding,
                           fedLog, logFile>>
       ELSE RunLoop(0, bufferedResults, nextToProcess, <<>>, feeding, "done")
    /\ UNCHANGED <<rpMode, frames, cursor, analysed>>
    /\ UNCHANGED <<pipelineVars, liveVars, agentVars, twinVars, sessVars, ctorVars, dfVars,
                   wmVars, tkVars, maVars, hmVars>>

\* processHeatmapsAsynchronously: one task's analysis returned
TaskDone(i) ==
    /\ rpMode = "all" /\ i # 0 /\ rpProcs[i].pc = "analyzing"
    /\ rpProcs' = [rpProcs EXCEPT ![i] = Proc("done", 0, <<>>)]
    /\ analysed' = Append(analysed, frames[i])
    /\ bufferedResults' = bufferedResults \cup {i - 1}
    /\ UNCHANGED <<rpMode, frames, nextToProcess, processingQueue, cursor, feeding,
                   fedLog, logFile>>
    /\ UNCHANGED <<pipelineVars, liveVars, agentVars, twinVars, sessVars, ctorVars, dfVars,
                   wmVars, tkVars, maVars, hmVars>>

\* After Promise.all(tasks): results.sort by timestamp
AllSorted ==
    /\ rpMode = "all" /\ rpProcs[0].pc = "await"
    /\ \A i \in DOMAIN rpProcs \ {0} : rpProcs[i].pc = "done"
    /\ frames' = SortByTimestamp(frames)
    /\ rpProcs' = [rpProcs EXCEPT ![0] = Proc("loop", 0, <<>>)]
    /\ UNCHANGED <<rpMode, bufferedResults, nextToProcess, processingQueue, cursor,
                   feeding, fedLog, logFile, analysed>>
    /\ UNCHANGED <<pipelineVars, liveVars, agentVars, twinVars, sessVars, ctorVars, dfVars,
                   wmVars, tkVars, maVars, hmVars>>

\* for (... of results): feed the next result, or finish
AllFeedStart ==
    /\ rpMode = "all" /\ rpProcs[0].pc = "loop"
    /\ IF rpProcs[0].index < Len(frames)
       THEN /\ BeginFeed(rpProcs[0].index)
            /\ feeding' = feeding \cup {frames[rpProcs[0].index + 1]}
            /\ rpProcs' = [rpProcs EXCEPT ![0].pc = "feeding"]
       ELSE /\ rpProcs' = [rpProcs EXCEPT ![0].pc = "done"]
            /\ UNCHANGED <<feeding, fedLog>>
    /\ UNCHANGED <<rpMode, frames, bufferedResults, nextToProcess, processingQueue,
                   cursor, logFile, analysed>>
    /\ UNCHANGED <<pipelineVars, liveVars, agentVars, twinVars, sessVars, ctorVars, dfVars,
                   wmVars, tkVars, maVars, hmVars>>

\* The feed returned: fs.appendFile of the tick line is started
AllFeedDone ==
    /\ rpMode = "all" /\ rpProcs[0].pc = "feeding"
    /\ feeding' = feeding \ {frames[rpProcs[0].index + 1]}
    /\ rpProcs' = [rpProcs EXCEPT ![0].pc = "appending"]
    /\ UNCHANGED <<rpMode, frames, bufferedResults, nextToProcess, processingQueue,
                   cursor, fedLog, logFile, analysed>>
    /\ UNCHANGED <<pipelineVars, liveVars, agentVars, twinVars, sessVars, ctorVars, dfVars,
                   wmVars, tkVars, maVars, hmVars>>

\* The line is in the file; on to the next result
AllAppended ==
    /\ rpMode = "all" /\ rpProcs[0].pc = "appending"
    /\ logFile' = Append(logFile, frames[rpProcs[0].index + 1])
    /\ rpProcs' = [rpProcs EXCEPT ![0] = Proc("loop", rpProcs[0].index + 1, <<>>)]
    /\ UNCHANGED <<rpMode, frames, bufferedResults, nextToProcess, processingQueue,
                   cursor, feeding, fedLog, analysed>>
    /\ UNCHANGED <<pipelineVars, liveVars, agentVars, twinVars, sessVars, ctorVars, dfVars,
                   wmVars, tkVars, maVars, hmVars>>

ReplayNext ==
    \/ \E w \in DOMAIN rpProcs : WorkerNext(w)
    \/ \E w \in DOMAIN rpProcs : WorkerAnalysed(w)
    \/ \E p \in DOMAIN rpProcs : FeedDone(p)
    \/ MainDrain
    \/ \E i \in DOMAIN rpProcs : TaskDone(i)
    \/ AllSorted
    \/ AllFeedStart
    \/ AllFeedDone
    \/ AllAppended

SpecReplay == ReplayInit /\ [][ReplayNext]_vars

(***************************************************************************)
(* Consensus Fusion Analyzer: edge-triggered emission and sentiment gate   *)
(***************************************************************************)

\* "none" (zero total weight), or the consensus signal of the last tick
TsaConsensusSignal == tsaTick.consensusSignal

\* The last tick's consensus was Buy or Sell and its raw sentiment score did
\* not veto it.
TsaGateSatisfied ==
    /\ ~SentimentBuyVeto(tsaOptions, TsaConsensusSignal, tsaTick.sentimentScore)
    /\ ~SentimentSellVeto(tsaOptions, TsaConsensusSignal, tsaTick.sentimentScore)

TsaDirectional == tsaTick.called /\ TsaConsensusSignal \in {Buy, Sell}

\* The first tick of a run that starts from a Neutral emitted-state returns
\* the consensus signal; a later tick of the run returns Neutral.
C1_RunStep ==
    /\ (TsaDirectional' /\ TsaGateSatisfied' /\ lastEmittedSignal = Neutral)
           => tsaTick'.result.tradeSignal = TsaConsensusSignal'
    /\ (TsaDirectional /\ TsaGateSatisfied /\ TsaDirectional' /\ TsaGateSatisfied'
           /\ TsaConsensusSignal' = TsaConsensusSignal)
           => tsaTick'.result.tradeSignal = Neutral

\* C1 (as amended): over a run of consecutive ticks whose consensus stays Buy
\* (or stays Sell) with the sentiment gate satisfied on every tick, starting
\* from a Neutral emitted-state, the first tick returns the signal and every
\* later tick returns Neutral; after a tick whose consensus score lies strictly
\* between sellThreshold and buyThreshold, the next gate-passing Buy or Sell
\* consensus returns its signal once more.
C1_EdgeTriggerSingleEmission ==
    [][ /\ C1_RunStep
        /\ (tsaTick.called /\ TsaConsensusSignal = Neutral
               /\ TsaDirectional' /\ TsaGateSatisfied')
               => tsaTick'.result.tradeSignal = TsaConsensusSignal' ]_vars

\* A later tick of a Buy run was suppressed: Buy had been emitted, the
\* consensus is still Buy, the gate is satisfied, the result is Neutral.
C1_Witness ==
    /\ TsaDirectional /\ TsaGateSatisfied
    /\ TsaConsensusSignal = Buy
    /\ tsaTick.before = Buy
    /\ tsaTick.result = NeutralResult

\* C1 as stated: after the consensus score drops below buyThreshold (to any
\* value below it, gate satisfied) and rises to or above it again, the Buy is
\* returned once more; symmetrically for Sell.
C1_Original ==
    [][ /\ C1_RunStep
        /\ (tsaTick.called /\ TsaConsensusSignal \in {Neutral, Sell}
               /\ TsaGateSatisfied /\ tsaTick.before = Buy
               /\ TsaDirectional' /\ TsaConsensusSignal' = Buy /\ TsaGateSatisfied')
               => tsaTick'.result.tradeSignal = Buy
        /\ (tsaTick.called /\ TsaConsensusSignal \in {Neutral, Buy}
               /\ TsaGateSatisfied /\ tsaTick.before = Sell
               /\ TsaDirectional' /\ TsaConsensusSignal' = Sell /\ TsaGateSatisfied')
               => tsaTick'.result.tradeSignal = Sell ]_vars

\* C2: after every tick whose consensus is Neutral (score strictly between
\* the thresholds, or zero total weight) lastEmittedSignal is Neutral.
C2_NeutralConsensusRearms ==
    (tsaTick.called /\ TsaConsensusSignal \in {Neutral, "none"})
        => lastEmittedSignal = Neutral

\* C3: update never returns Buy when the raw sentiment score is above
\* sentimentBuyThreshold nor Sell when it is below sentimentSellThreshold; a
\* vetoed consensus returns Neutral with confidence 0.
C3_SentimentGate ==
    tsaTick.called =>
        /\ tsaTick.result.tradeSignal = Buy
              => ~(tsaTick.sentimentScore > tsaOptions.sentimentBuyThreshold)
        /\ tsaTick.result.tradeSignal = Sell
              => ~(tsaTick.sentimentScore < tsaOptions.sentimentSellThreshold)
        /\ (TsaConsensusSignal = Buy
               /\ tsaTick.sentimentScore > tsaOptions.sentimentBuyThreshold)
              => tsaTick.result = NeutralResult
        /\ (TsaConsensusSignal = Sell
               /\ tsaTick.sentimentScore < tsaOptions.sentimentSellThreshold)
              => tsaTick.result = NeutralResult

\* A Buy consensus that would have been emitted (emitted-state Neutral) was
\* vetoed by a raw sentiment score above sentimentBuyThreshold.
C3_Witness ==
    /\ tsaTick.called
    /\ TsaConsensusSignal = Buy
    /\ tsaTick.before = Neutral
    /\ tsaTick.sentimentScore > tsaOptions.sentimentBuyThreshold
    /\ tsaTick.result = NeutralResult

\* C5: with hysteresisCount = h >= 2, a classifier returns a non-Neutral
\* signal only on a tick that completes h observations in a row of the same
\* non-neutral direction (Trend Classifier) or intent (Momentum Fusion
\* Analyzer); so while no value repeats h times in a row, and in particular
\* while it alternates every tick, every returned signal is Neutral.
C5_HysteresisNonOscillation ==
    /\ (/\ clsOptions.slope.hysteresisCount >= 2
        /\ clsTick.slope.result.tradeSignal # Neutral)
          => clsTick.slope.run.count >= clsOptions.slope.hysteresisCount
    /\ (/\ clsOptions.momentum.hysteresisCount >= 2
        /\ clsTick.momentum.result.tradeSignal # Neutral)
          => clsTick.momentum.run.count >= clsOptions.momentum.hysteresisCount

\* Both classifiers have seen their observation alternate on three ticks
\* running, under h >= 2, and both returned Neutral.
C5_Witness ==
    /\ clsOptions.slope.hysteresisCount >= 2
    /\ clsOptions.momentum.hysteresisCount >= 2
    /\ clsTick.slope.run.alternations >= 2
    /\ clsTick.momentum.run.alternations >= 2
    /\ clsTick.slope.result.tradeSignal = Neutral
    /\ clsTick.momentum.result.tradeSignal = Neutral
(***************************************************************************)
(* Live session: start() sets an interval timer whose callback calls       *)
(* tick(); tick() awaits the capture, stamps the frame, awaits the image   *)
(* analysis and then runs the analyzer updates.                            *)
(***************************************************************************)
MaxLiveTicks == 3

\* Sentiment scores the image analysis can find in a captured frame
LiveScores == {-70, 70}

LiveTick(pc, timestamp) == [pc |-> pc, timestamp |-> timestamp]

\* The state after start(): page open, interval timer set
LiveInit ==
    /\ ReplayIdle
    /\ AgentIdle
    /\ ControllerConstructed({[filter |-> FilterPassThrough, tsa |-> TsaBase,
                               slope |-> [SlopeBase EXCEPT !.hysteresisCount = 0],
                               momentum |-> MomentumBase]})
    /\ intervalId = TRUE
    /\ liveTicks = <<>>
    /\ liveClock = 0
    /\ liveFed = <<>>

\* The interval elapsed: the callback calls tick(), which starts the capture
\* (page.evaluate) whatever the earlier ticks are doing.
TimerFires ==
    /\ intervalId
    /\ Len(liveTicks) < MaxLiveTicks
    /\ liveTicks' = Append(liveTicks, LiveTick("capturing", 0))
    /\ UNCHANGED <<intervalId, liveClock, liveFed, pipelineVars, replayVars,
                   agentVars, twinVars, sessVars, ctorVars, dfVars, wmVars, tkVars,
                   maVars, hmVars>>

\* page.evaluate returned: without a canvas the tick ends; otherwise the
\* frame is stamped with Date.now() and its analysis is awaited.
CaptureDone(t) ==
    /\ liveTicks[t].pc = "capturing"
    /\ \E dataUrl \in {"", "data"} :
         IF dataUrl = ""
         THEN /\ liveTicks' = [liveTicks EXCEPT ![t] = LiveTick("done", 0)]
              /\ UNCHANGED liveClock
         ELSE /\ liveClock' = liveClock + 1
              /\ liveTicks' = [liveTicks EXCEPT ![t] = LiveTick("analyzing", liveClock + 1)]
    /\ UNCHANGED <<intervalId, liveFed, pipelineVars, replayVars, agentVars, twinVars,
                   sessVars, ctorVars, dfVars, wmVars, tkVars, maVars, hmVars>>

\* heatmapAnalyzer.analyze returned: the filter, the classifiers and the
\* fusion are updated in one go, and the tick is logged and emitted.
AnalysisDone(t) ==
    /\ liveTicks[t].pc = "analyzing"
    /\ \E sentimentScore \in LiveScores : PipelineUpdate(sentimentScore)
    /\ liveFed' = Append(liveFed, liveTicks[t].timestamp)
    /\ liveTicks' = [liveTicks EXCEPT ![t].pc = "done"]
    /\ UNCHANGED <<intervalId, liveClock, pipelineOptionVars, replayVars, agentVars,
                   twinVars, sessVars, ctorVars, dfVars, wmVars, tkVars, maVars, hmVars>>

\* stop(): the timer is cleared; ticks already under way run to their end
LiveStop ==
    /\ intervalId
    /\ intervalId' = FALSE
    /\ UNCHANGED <<liveTicks, liveClock, liveFed, pipelineVars, replayVars,
                   agentVars, twinVars, sessVars, ctorVars, dfVars, wmVars, tkVars,
                   maVars, hmVars>>

LiveNext ==
    \/ TimerFires
    \/ \E t \in DOMAIN liveTicks : CaptureDone(t)
    \/ \E t \in DOMAIN liveTicks : AnalysisDone(t)
    \/ LiveStop

SpecLive == LiveInit /\ [][LiveNext]_vars

(***************************************************************************)
(* PythonHeatmapAgent: analyze() registers the waitForLine listeners,      *)
(* writes the request to the child's stdin and awaits the promise; the     *)
(* child answers its requests in order, one line each.  An event reaches   *)
(* the listeners registered at the moment it is emitted.                   *)
(***************************************************************************)
MaxCalls == 3

Call(state, line) == [state |-> state, line |-> line, settles |-> IF state = "pending" THEN 0 ELSE 1]

\* A response line: the request it answers and what it carries
Line(request, kind) == [request |-> request, kind |-> kind]

NoLine == Line(0, "none")

\* The state after PythonHeatmapAgent.create
AgentInit ==
    /\ TsaIdle /\ ClsIdle /\ FilterIdle /\ ReplayIdle /\ LiveIdle /\ TwinIdle
    /\ disposed = FALSE
    /\ childState = "running"
    /\ rlClosed = FALSE
    /\ agCalls = <<>>
    /\ agListeners = {}
    /\ agStdin = <<>>
    /\ agStdout = <<>>

\* Every call whose listeners are registered settles: settled, cleanup,
\* resolve or reject.
SettleListeners(state, line) ==
    [c \in DOMAIN agCalls |->
        IF c \in agListeners
        THEN [state |-> state, line |-> line, settles |-> agCalls[c].settles + 1]
        ELSE agCalls[c]]

\* analyze(): throws when disposed; otherwise waitForLine() registers the
\* listeners and the request is written to the child's stdin (a write to a
\* child that is gone reaches nobody).
Analyze ==
    /\ Len(agCalls) < MaxCalls
    /\ IF disposed
       THEN /\ agCalls' = Append(agCalls, Call("rejected", NoLine))
            /\ UNCHANGED <<agListeners, agStdin>>
       ELSE /\ agCalls' = Append(agCalls, Call("pending", NoLine))
            /\ agListeners' = agListeners \cup {Len(agCalls) + 1}
            /\ agStdin' = IF childState = "running"
                          THEN Append(agStdin, Len(agCalls) + 1)
                          ELSE agStdin
    /\ UNCHANGED <<disposed, childState, rlClosed, agStdout, pipelineVars, replayVars,
                   liveVars, twinVars, sessVars, ctorVars, dfVars, wmVars, tkVars,
                   maVars, hmVars>>

\* The child reads its next request and writes the response line
ChildResponds ==
    /\ childState = "running"
    /\ agStdin # <<>>
    /\ \E kind \in {"heatmap", "error"} :
         agStdout' = Append(agStdout, Line(Head(agStdin), kind))
    /\ agStdin' = Tail(agStdin)
    /\ UNCHANGED <<disposed, childState, rlClosed, agCalls, agListeners, pipelineVars,
                   replayVars, liveVars, twinVars, sessVars, ctorVars, dfVars, wmVars,
                   tkVars, maVars, hmVars>>

\* readline emits 'line': every registered handleLine runs, and analyze
\* returns the heatmap or throws on an error response
LineEvent ==
    /\ ~rlClosed
    /\ agStdout # <<>>
    /\ agCalls' = SettleListeners(IF Head(agStdout).kind = "heatmap" THEN "resolved"
                                  ELSE "rejected", Head(agStdout))
    /\ agListeners' = {}
    /\ agStdout' = Tail(agStdout)
    /\ UNCHANGED <<disposed, childState, rlClosed, agStdin, pipelineVars, replayVars,
                   liveVars, twinVars, sessVars, ctorVars, dfVars, wmVars, tkVars,
                   maVars, hmVars>>

\* The child exits ('exit') or fails ('error'): every registered handler rejects
ChildEnds ==
    /\ childState = "running"
    /\ childState' \in {"exited", "errored"}
    /\ agCalls' = SettleListeners("rejected", NoLine)
    /\ agListeners' = {}
    /\ agStdin' = <<>>
    /\ UNCHANGED <<disposed, rlClosed, agStdout, pipelineVars, replayVars, liveVars,
                   twinVars, sessVars, ctorVars, dfVars, wmVars, tkVars, maVars, hmVars>>

\* The child's stdout ended and its lines were emitted: readline closes and
\* emits 'close'
StdoutCloses ==
    /\ childState # "running"
    /\ agStdout = <<>>
    /\ ~rlClosed
    /\ rlClosed' = TRUE
    /\ agCalls' = SettleListeners("rejected", NoLine)
    /\ agListeners' = {}
    /\ UNCHANGED <<disposed, childState, agStdin, agStdout, pipelineVars, replayVars,
                   liveVars, twinVars, sessVars, ctorVars, dfVars, wmVars, tkVars,
                   maVars, hmVars>>

\* dispose(): rl.close() emits 'close' unless readline has closed already;
\* the child is killed
Dispose ==
    /\ ~disposed
    /\ disposed' = TRUE
    /\ rlClosed' = TRUE
    /\ IF rlClosed
       THEN UNCHANGED <<agCalls, agListeners>>
       ELSE /\ agCalls' = SettleListeners("rejected", NoLine)
            /\ agListeners' = {}
    /\ childState' = IF childState = "running" THEN "exited" ELSE childState
    /\ agStdin' = <<>>
    /\ agStdout' = <<>>
    /\ UNCHANGED <<pipelineVars, replayVars, liveVars, twinVars, sessVars, ctorVars, dfVars,
                   wmVars, tkVars, maVars, hmVars>>

AgentNext ==
    \/ Analyze
    \/ ChildResponds
    \/ LineEvent
    \/ ChildEnds
    \/ StdoutCloses
    \/ Dispose

SpecAgent == AgentInit /\ [][AgentNext]_vars

\* The child answers what it has read, and events that are due are emitted;
\* nothing obliges the caller to call analyze or dispose, or the child to end.
SpecAgentFair ==
    /\ SpecAgent
    /\ WF_vars(ChildResponds)
    /\ WF_vars(LineEvent)
    /\ WF_vars(StdoutCloses)

(***************************************************************************)
(* Two controllers constructed from the same options take the same raw     *)
(* scores, each at its own time: the second takes the score of its next    *)
(* tick some time after the first took it.  The timestamp argument of      *)
(* analyzeRawHeatmap is copied into the result and read by no analyzer.    *)
(***************************************************************************)
MaxTwinTicks == 4

\* The results of the stages in what analyzeRawHeatmap returns
TickResults(t) ==
    [deltaFilter |-> t.fu.filtered, slopeSignAnalyzer |-> t.su.result,
     momentumCompositeAnalyzer |-> t.mu.result, tradeSignalFusion |-> t.tu.result]

TwinInit ==
    /\ SessIdle
    /\ TsaIdle /\ ClsIdle /\ FilterIdle /\ ReplayIdle /\ LiveIdle
    /\ disposed = FALSE
    /\ childState = "none"
    /\ rlClosed = FALSE
    /\ agCalls = <<>>
    /\ agListeners = {}
    /\ agStdin = <<>>
    /\ agStdout = <<>>
    /\ \E p \in ControllerPresets :
         /\ TsaOptionsValid(p.tsa)
         /\ MomentumOptionsValid(p.momentum)
         /\ twinOptions = [filter |-> DeltaFilterConstruct(p.filter), slope |-> p.slope,
                           momentum |-> p.momentum, tsa |-> p.tsa]
    /\ twinA = ControllerInitState
    /\ twinB = ControllerInitState
    /\ twinInputs = <<>>
    /\ twinOutA = <<>>
    /\ twinOutB = <<>>
    /\ wallClock = 0

\* One controller analyses its next frame: the first a frame with any raw
\* score, the second the frame the first analysed at the same position.
TwinTick ==
    /\ \E first \in BOOLEAN, rawScore \in RawScores :
         /\ IF first
            THEN Len(twinOutA) < MaxTwinTicks
            ELSE /\ Len(twinOutB) < Len(twinInputs)
                 /\ rawScore = twinInputs[Len(twinOutB) + 1]
         /\ \E t \in {analyzeRawHeatmap(twinOptions, IF first THEN twinA ELSE twinB,
                                        rawScore)} :
              IF first
              THEN /\ twinA' = t.state
                   /\ twinOutA' = Append(twinOutA, TickResults(t))
                   /\ twinInputs' = Append(twinInputs, rawScore)
                   /\ UNCHANGED <<twinB, twinOutB>>
              ELSE /\ twinB' = t.state
                   /\ twinOutB' = Append(twinOutB, TickResults(t))
                   /\ UNCHANGED <<twinA, twinOutA, twinInputs>>
    /\ wallClock' = wallClock + 1
    /\ UNCHANGED <<twinOptions, pipelineVars, replayVars, liveVars, agentVars, sessVars,
                   ctorVars, dfVars, wmVars, tkVars, maVars, hmVars>>

TwinNext == TwinTick

SpecTwin == TwinInit /\ [][TwinNext]_vars

(***************************************************************************)
(* The pipeline with options whose history caps are reached within         *)
(* MaxTicks: windows of 1 to 3 samples, fixed and adaptive, the last with   *)
(* a base window above adaptiveMaxWindow.                                  *)
(***************************************************************************)
HistoryPresets ==
    { [filter |-> FilterPassThrough, tsa |-> [TsaBase EXCEPT !.windowSize = 2],
       slope |-> [SlopeBase EXCEPT !.adaptiveMaxWindow = 2],
       momentum |-> MomentumBase],
      [filter |-> FilterPassThrough, tsa |-> TsaBase,
       slope |-> [SlopeBase EXCEPT !.adaptive = TRUE, !.adaptiveMinWindow = 1,
                                   !.adaptiveMaxWindow = 2, !.adaptiveVolScale = 10],
       momentum |-> [MomentumBase EXCEPT !.adaptive = TRUE, !.rsiPeriod = 1,
                                         !.zWindow = 3, !.adaptiveMinWindow = 1,
                                         !.adaptiveMaxWindow = 3,
                                         !.adaptiveVolScale = 10]],
      [filter |-> FilterPassThrough, tsa |-> TsaBase,
       slope |-> [SlopeBase EXCEPT !.adaptive = TRUE, !.slopeWindow = 3,
                                   !.adaptiveMinWindow = 1, !.adaptiveMaxWindow = 2,
                                   !.adaptiveVolScale = 10],
       momentum |-> [MomentumBase EXCEPT !.adaptive = TRUE, !.rsiPeriod = 1,
                                         !.zWindow = 3, !.adaptiveMinWindow = 1,
                                         !.adaptiveMaxWindow = 2,
                                         !.adaptiveVolScale = 10]] }

HistInit ==
    /\ ReplayIdle
    /\ LiveIdle
    /\ AgentIdle
    /\ ControllerConstructed(HistoryPresets)

SpecHistory == HistInit /\ [][Next]_vars

(***************************************************************************)
(* Constructors called with options of every kind.  A constructor that     *)
(* throws returns no instance; one that returns leaves an analyzer whose   *)
(* update can then be called.  MovingAverageAnalyzer.update is not         *)
(* modelled, so a moving-average instance takes no ticks here.             *)
(***************************************************************************)
MaxCtorTicks == 2

\* SlopeSignAnalyzer's constructor checks nothing but the presence of options
SlopeOptionsValid(o) == TRUE

\* MovingAverageAnalyzer's constructor
MovingAverageOptionsValid(o) == ~(o.longWindow <= o.shortWindow)

CtorThresholds == {-101, -100, -30, 0, 30, 100, 101}

CtorWindows == {2, 3, 4}

CtorSlopeChoices ==
    { [SlopeBase EXCEPT !.adaptive = TRUE, !.adaptiveMinWindow = lo,
                        !.adaptiveMaxWindow = hi] : lo \in CtorWindows, hi \in CtorWindows }

CtorMomentumChoices ==
    { [MomentumBase EXCEPT !.adaptive = TRUE, !.buyThreshold = buy, !.sellThreshold = sell] :
        buy \in CtorThresholds, sell \in CtorThresholds }
      \cup { [MomentumBase EXCEPT !.adaptive = TRUE, !.adaptiveMinWindow = 3,
                                  !.adaptiveMaxWindow = 2] }

CtorTsaChoices ==
    { [TsaBase EXCEPT !.buyThreshold = buy, !.sellThreshold = sell,
                      !.sentimentBuyThreshold = sb] :
        buy \in {-101, -30, 0, 30, 101}, sell \in {-101, -30, 0, 30, 101},
        sb \in {-50, 50} }

CtorMovingAverageChoices == [shortWindow : CtorWindows, longWindow : CtorWindows]

CtorScores == {-70, 70}

NoInstance == [kind |-> "none"]

Instance(kind, options, state) ==
    [kind |-> kind, options |-> options, state |-> state, ticks |-> 0]

\* new X(options): throws, or returns the instance
Construct(kind, options, valid, state) ==
    /\ ctorCall' = [called |-> TRUE, kind |-> kind, options |-> options, threw |-> ~valid,
                    instance |-> IF valid THEN Instance(kind, options, state)
                                 ELSE NoInstance]
    /\ ctorInstance' = IF valid THEN Instance(kind, options, state) ELSE ctorInstance

CtorInit ==
    /\ DfIdle
    /\ TsaIdle /\ ClsIdle /\ FilterIdle /\ ReplayIdle /\ LiveIdle /\ AgentIdle
    /\ ctorCall = [called |-> FALSE]
    /\ ctorInstance = NoInstance

NewSlopeSignAnalyzer ==
    /\ \E o \in CtorSlopeChoices :
         Construct("slope", o, SlopeOptionsValid(o), SlopeInitState)
    /\ UNCHANGED <<pipelineVars, replayVars, liveVars, agentVars, twinVars, sessVars, dfVars,
                   wmVars, tkVars, maVars, hmVars>>

NewMomentumCompositeAnalyzer ==
    /\ \E o \in CtorMomentumChoices :
         Construct("momentum", o, MomentumOptionsValid(o), MomentumInitState)
    /\ UNCHANGED <<pipelineVars, replayVars, liveVars, agentVars, twinVars, sessVars, dfVars,
                   wmVars, tkVars, maVars, hmVars>>

NewTradeSignalAnalyzer ==
    /\ \E o \in CtorTsaChoices :
         Construct("tsa", o, TsaOptionsValid(o), [history |-> <<>>, last |-> Neutral])
    /\ UNCHANGED <<pipelineVars, replayVars, liveVars, agentVars, twinVars, sessVars, dfVars,
                   wmVars, tkVars, maVars, hmVars>>

NewMovingAverageAnalyzer ==
    /\ \E o \in CtorMovingAverageChoices :
         Construct("movingAverage", o, MovingAverageOptionsValid(o), <<>>)
    /\ UNCHANGED <<pipelineVars, replayVars, liveVars, agentVars, twinVars, sessVars, dfVars,
                   wmVars, tkVars, maVars, hmVars>>

\* update() of the analyzer in use
CtorUpdate ==
    /\ ctorInstance.kind \in {"slope", "momentum", "tsa"}
    /\ ctorInstance.ticks < MaxCtorTicks
    /\ \E score \in CtorScores :
         \E next \in { IF ctorInstance.kind = "slope"
                       THEN SlopeUpdate(ctorInstance.options, ctorInstance.state, score).state
                       ELSE IF ctorInstance.kind = "momentum"
                       THEN MomentumUpdate(ctorInstance.options, ctorInstance.state,
                                           score).state
                       ELSE [history |-> TsaUpdate(ctorInstance.options,
                                                   ctorInstance.state.history,
                                                   ctorInstance.state.last,
                                                   TradeSignals(Result(Buy, One),
                                                                Result(Buy, One),
                                                                score)).history,
                             last |-> ctorInstance.state.last] } :
           ctorInstance' = [ctorInstance EXCEPT !.state = next, !.ticks = @ + 1]
    /\ UNCHANGED <<ctorCall, pipelineVars, replayVars, liveVars, agentVars, twinVars,
                   sessVars, dfVars, wmVars, tkVars, maVars, hmVars>>

CtorNext ==
    \/ NewSlopeSignAnalyzer
    \/ NewMomentumCompositeAnalyzer
    \/ NewTradeSignalAnalyzer
    \/ NewMovingAverageAnalyzer
    \/ CtorUpdate

SpecConstruct == CtorInit /\ [][CtorNext]_vars

(***************************************************************************)
(* HeatmapAnalyzer.analyze on a frame given as groups of sampled pixels    *)
(* [s, family, n], ordered by saturation s (in 1/Milli), all of them       *)
(* opaque and at least minValue bright.  The options of the presets below  *)
(* give every shade the same weight, shadeGamma 1, no coverage floor and   *)
(* no neighbour filter, so intensity and coverFactor are 1.                *)
(***************************************************************************)
Milli == 1000

SampleCount(frame) == SumSeq([g \in DOMAIN frame |-> frame[g].n])

\* sorted[i] of the saturation samples, i counted from 0
RECURSIVE SampleAt(_, _)
SampleAt(frame, i) ==
    IF i < Head(frame).n \/ Len(frame) = 1 THEN Head(frame).s
    ELSE SampleAt(Tail(frame), i - Head(frame).n)

\* percentile(sorted, p) with p in percent: linear interpolation at (len-1)*p
percentile(frame, p) ==
    IF SampleCount(frame) = 0 THEN 0
    ELSE LET idx == (SampleCount(frame) - 1) * p
             lo == idx \div 100
             hi == IF idx % 100 = 0 THEN lo ELSE lo + 1
         IN  SampleAt(frame, lo)
               + ((SampleAt(frame, hi) - SampleAt(frame, lo)) * (idx % 100)) \div 100

autoTuneMinSaturationPass(frame, opts) ==
    IF SampleCount(frame) >= 50
    THEN Max(opts.autoTuneSMinFloor,
             Min(opts.minSaturation,
                 (percentile(frame, Min(95, Max(5, opts.autoTuneSPercentile))) * 95)
                     \div 100))
    ELSE opts.minSaturation

FamilyTotal(frame, family, minSaturation) ==
    SumSeq([g \in DOMAIN frame |->
              IF frame[g].family = family /\ frame[g].s >= minSaturation
              THEN frame[g].n ELSE 0])

\* Math.round(100 * direction), direction = (gTotal - rTotal) / max(1, gTotal + rTotal)
computeScore(gTotal, rTotal) ==
    (200 * (gTotal - rTotal) + Max(1, gTotal + rTotal)) \div (2 * Max(1, gTotal + rTotal))

\* analyze: the tuned minSaturation is written into the options object, and
\* familyOf reads it from there.
HeatmapAnalyze(opts, frame) ==
    LET tuned == autoTuneMinSaturationPass(frame, opts)
    IN  [minSaturation |-> tuned,
         sentimentScore |-> computeScore(FamilyTotal(frame, "green", tuned),
                                         FamilyTotal(frame, "red", tuned))]

HeatmapBase == [minSaturation |-> 500, autoTuneSPercentile |-> 5, autoTuneSMinFloor |-> 100]

\* A vivid frame, a washed-out frame, and a frame with few bright pixels
HeatmapFrames ==
    { <<[s |-> 800, family |-> "red", n |-> 20], [s |-> 800, family |-> "green", n |-> 60]>>,
      <<[s |-> 200, family |-> "red", n |-> 60]>>,
      <<[s |-> 300, family |-> "red", n |-> 10], [s |-> 800, family |-> "green", n |-> 20]>> }

(***************************************************************************)
(* TradeManagerService: controllers are added with an options object and   *)
(* each constructs its own analyzers; HeatmapAnalyzer keeps the options    *)
(* object it is given.  Ticks reach the controllers in any order.          *)
(***************************************************************************)
MaxControllers == 2
MaxSessTicks == 2

SessPipelineOptions ==
    [filter |-> DeltaFilterConstruct(FilterPassThrough), slope |-> SlopeBase,
     momentum |-> MomentumBase, tsa |-> TsaBase]

SessInit ==
    /\ CtorIdle
    /\ TsaIdle /\ ClsIdle /\ FilterIdle /\ ReplayIdle /\ LiveIdle /\ AgentIdle
    /\ sessOptions = <<>>
    /\ sessControllers = <<>>
    /\ sessAlone = <<>>
    /\ sessTick = [called |-> FALSE]

\* addTradeController(options): new TradeController(options) with an options
\* object just loaded from a preset, or with one the caller has passed before.
addTradeController ==
    /\ Len(sessControllers) < MaxControllers
    /\ \E ref \in 1..(Len(sessOptions) + 1) :
         /\ sessOptions' = IF ref > Len(sessOptions)
                           THEN Append(sessOptions, HeatmapBase) ELSE sessOptions
         /\ sessControllers' = Append(sessControllers,
                                      [options |-> ref, ticks |-> 0,
                                       state |-> ControllerInitState])
    /\ sessAlone' = Append(sessAlone, [options |-> HeatmapBase,
                                       state |-> ControllerInitState])
    /\ UNCHANGED <<sessTick, pipelineVars, replayVars, liveVars, agentVars, twinVars,
                   ctorVars, dfVars, wmVars, tkVars, maVars, hmVars>>

\* What a controller returns for a frame: the image analysis with the options
\* object as it is now, then the analyzers on the sentiment score.
SessAnalyse(opts, state, frame) ==
    LET Analysed(h) ==
            { [minSaturation |-> h.minSaturation, state |-> t.state,
               result |-> [sentimentScore |-> h.sentimentScore, stages |-> TickResults(t)]] :
                t \in {analyzeRawHeatmap(SessPipelineOptions, state, h.sentimentScore)} }
    IN  CHOOSE r \in UNION { Analysed(h) : h \in {HeatmapAnalyze(opts, frame)} } : TRUE

\* One controller analyses a frame
SessTickAction ==
    /\ \E k \in DOMAIN sessControllers, frame \in HeatmapFrames :
         /\ sessControllers[k].ticks < MaxSessTicks
         /\ \E runs \in {[alone \in BOOLEAN |->
                            SessAnalyse(IF alone THEN sessAlone[k].options
                                        ELSE sessOptions[sessControllers[k].options],
                                        IF alone THEN sessAlone[k].state
                                        ELSE sessControllers[k].state,
                                        frame)]} :
              /\ sessOptions' = [sessOptions EXCEPT ![sessControllers[k].options] =
                                   [@ EXCEPT !.minSaturation = runs[FALSE].minSaturation]]
              /\ sessControllers' = [sessControllers EXCEPT ![k] =
                                       [@ EXCEPT !.ticks = @ + 1,
                                                 !.state = runs[FALSE].state]]
              /\ sessAlone' = [sessAlone EXCEPT ![k] =
                                 [options |-> [@.options EXCEPT !.minSaturation =
                                                                   runs[TRUE].minSaturation],
                                  state |-> runs[TRUE].state]]
              /\ sessTick' = [called |-> TRUE, controller |-> k, frame |-> frame,
                              result |-> runs[FALSE].result, alone |-> runs[TRUE].result]
    /\ UNCHANGED <<pipelineVars, replayVars, liveVars, agentVars, twinVars, ctorVars, dfVars,
                   wmVars, tkVars, maVars, hmVars>>

SessNext ==
    \/ addTradeController
    \/ SessTickAction

SpecSessions == SessInit /\ [][SessNext]_vars

(***************************************************************************)
(* Confidence of the three stages that return a signal                     *)
(***************************************************************************)
StageResults == {clsTick.slope.result, clsTick.momentum.result, tsaTick.result}

ConfidencesBounded == \A r \in StageResults : r.confidence >= 0 /\ r.confidence <= One

StrictlyIncreasing(q) == \A i, j \in DOMAIN q : i < j => q[i] < q[j]

IsPrefix(q, r) == Len(q) <= Len(r) /\ q = SubSeq(r, 1, Len(q))

\* C6: whatever the order in which the analyses finish, the pipeline is fed
\* the frames in strictly increasing timestamp order without skipping or
\* repeating one, at most one feed is in progress at any time, and the tick
\* lines are written to the log in the order of the feeds.
C6_ReplayFeedsInOrder ==
    /\ StrictlyIncreasing(fedLog)
    /\ IsPrefix(fedLog, SortByTimestamp(frames))
    /\ Cardinality(feeding) <= 1
    /\ IsPrefix(logFile, fedLog)

\* A finished replay by two workers of three frames whose analyses finished
\* out of timestamp order: every frame was fed and logged, in order.
C6_Witness ==
    /\ rpMode = "workers"
    /\ Cardinality(DOMAIN rpProcs) >= 3
    /\ \A p \in DOMAIN rpProcs : rpProcs[p].pc = "done"
    /\ Len(frames) >= 3
    /\ ~StrictlyIncreasing(analysed)
    /\ fedLog = frames
    /\ logFile = frames

\* The frame indices being analysed by the workers
Dispatched == { w \in DOMAIN rpProcs \ {0} : rpProcs[w].pc = "analyzing" }

\* C39: in replayFromHeatmaps no frame index is handed to two workers (the
\* indices under analysis are distinct, lie below the cursor and none has
\* been analysed before), and when the function resolves every worker has
\* finished, every frame has been analysed once and fed to the pipeline
\* once, in order, the result buffer is empty, no feed is in progress and
\* as many ticks were fed as there are frames.
C39_ReplayIsComplete ==
    rpMode = "workers" =>
        /\ \A v, w \in Dispatched :
              v # w => rpProcs[v].index # rpProcs[w].index
        /\ \A w \in Dispatched :
              /\ rpProcs[w].index < cursor
              /\ frames[rpProcs[w].index + 1] \notin Range(analysed)
        /\ \A i, j \in DOMAIN analysed : i # j => analysed[i] # analysed[j]
        /\ Len(analysed) + Cardinality(Dispatched) = cursor
        /\ rpProcs[0].pc = "done" =>
              /\ \A w \in DOMAIN rpProcs : rpProcs[w].pc = "done"
              /\ cursor = Len(frames)
              /\ Range(analysed) = Range(frames)
              /\ bufferedResults = {}
              /\ feeding = {}
              /\ ~processingQueue
              /\ nextToProcess = Len(frames)
              /\ Len(fedLog) = Len(frames)
              /\ fedLog = frames

\* A replay of three frames or more that has resolved, in which the last
\* frame was the first to be analysed, so that its result waited in the
\* buffer for every other frame.
C39_Witness ==
    /\ rpMode = "workers"
    /\ rpProcs[0].pc = "done"
    /\ Len(frames) >= 3
    /\ analysed # <<>>
    /\ analysed[1] = frames[Len(frames)]
    /\ Len(fedLog) = Len(frames)
    /\ bufferedResults = {}
(***************************************************************************)
(* Live session: order of the pipeline updates                             *)
(***************************************************************************)
\* C7: the pipeline updates of the live session run in capture order: the
\* updates for a frame stamped earlier are done before those of any frame
\* stamped later.
C7_LiveTicksInCaptureOrder == StrictlyIncreasing(liveFed)
(***************************************************************************)
(* Image-analysis channel                                                  *)
(***************************************************************************)
\* C8: at most one analyze call awaits a response at any time, and a call
\* that settled on a response line settled on the line answering its own
\* request.
C8_OneRequestOwnResponse ==
    /\ Cardinality(agListeners) <= 1
    /\ \A c \in DOMAIN agCalls :
         agCalls[c].line # NoLine => agCalls[c].line.request = c

\* C9: every analyze call settles, exactly once: eventually no call is
\* pending any more, and no call ever settles twice.
C9_EveryCallSettles ==
    /\ <>[](\A c \in DOMAIN agCalls : agCalls[c].state # "pending")
    /\ [](\A c \in DOMAIN agCalls : agCalls[c].settles <= 1)
ThresholdsStraddle(o) ==
    /\ o.sellThreshold < 0 /\ 0 < o.buyThreshold
    /\ -One <= o.sellThreshold /\ o.sellThreshold <= One
    /\ -One <= o.buyThreshold /\ o.buyThreshold <= One

\* C12: a MomentumCompositeAnalyzer or TradeSignalAnalyzer constructor call
\* whose thresholds do not straddle 0 within [-1, 1] throws and returns no
\* instance, so every such analyzer in use has thresholds that do.
C12_ThresholdsValidated ==
    /\ (/\ ctorCall.called
        /\ ctorCall.kind \in {"momentum", "tsa"}
        /\ ~ThresholdsStraddle(ctorCall.options))
         => ctorCall.threw /\ ctorCall.instance = NoInstance
    /\ ctorInstance.kind \in {"momentum", "tsa"} => ThresholdsStraddle(ctorInstance.options)

\* An analyzer with valid thresholds has taken a tick, and a later constructor
\* call with a buy threshold above 1 has thrown.
C12_Witness ==
    /\ ctorCall.called
    /\ ctorCall.kind = "momentum"
    /\ ctorCall.options.sellThreshold < 0
    /\ ctorCall.options.buyThreshold > One
    /\ ctorCall.threw
    /\ ctorInstance.kind = "tsa"
    /\ ctorInstance.ticks > 0

WindowsInverted(kind, o) ==
    IF kind = "movingAverage" THEN o.longWindow <= o.shortWindow
    ELSE kind \in {"slope", "momentum"} /\ o.adaptiveMinWindow > o.adaptiveMaxWindow

\* C13: a constructor call with inverted window bounds throws and returns no
\* instance, and no analyzer with inverted window bounds takes a tick.
C13_InvertedWindowsRejected ==
    /\ (ctorCall.called /\ WindowsInverted(ctorCall.kind, ctorCall.options))
         => ctorCall.threw /\ ctorCall.instance = NoInstance
    /\ (ctorInstance.kind # "none" /\ ctorInstance.ticks > 0)
         => ~WindowsInverted(ctorInstance.kind, ctorInstance.options)

(***************************************************************************)
(* Rolling histories                                                       *)
(***************************************************************************)
\* The history after an update is the end of the history before it with the
\* input appended, and no longer than the cap.
HistoryKept(before, input, after, cap) ==
    /\ Len(after) <= cap
    /\ after = LastN(Append(before, input), Len(after))

\* C14: on every tick the history of each stage is, after the update, no
\* longer than its cap (Trend Classifier 2 * max(adaptiveMaxWindow, window),
\* Momentum Fusion 2 * max(rsiPeriod, z-window), Consensus Fusion windowSize)
\* and consists of the most recent inputs in arrival order: only the oldest
\* entries have been removed.
C14_BoundedHistory ==
    [][clsTicks' = clsTicks + 1 =>
        /\ HistoryKept(slopeSignAnalyzer.history, filterTick'.filteredScore,
                       slopeSignAnalyzer'.history,
                       2 * Max(clsOptions.slope.adaptiveMaxWindow, clsTick'.slope.window))
        /\ HistoryKept(momentumCompositeAnalyzer.history, filterTick'.filteredScore,
                       momentumCompositeAnalyzer'.history,
                       2 * Max(clsOptions.momentum.rsiPeriod, clsTick'.momentum.window))
        /\ HistoryKept(tsaHistory,
                       [slopeSignTradeSignal |-> clsTick'.slope.result,
                        momentumCompositeTradeSignal |-> clsTick'.momentum.result],
                       tsaHistory', tsaOptions.windowSize)]_vars

\* Every stage has dropped its oldest entries and the Trend Classifier's
\* history is as long as its cap.
C14_Witness ==
    /\ Len(slopeSignAnalyzer.history) < clsTicks
    /\ Len(slopeSignAnalyzer.history)
         = 2 * Max(clsOptions.slope.adaptiveMaxWindow, clsTick.slope.window)
    /\ Len(momentumCompositeAnalyzer.history) < clsTicks
    /\ Len(tsaHistory) < clsTicks
    /\ clsOptions.slope.adaptive

\* The stage had the samples its window needed on the most recent tick
SlopeCovered == clsTick.slope.branch \notin {"init", "insufficient"}

MomentumCovered == clsTick.momentum.branch \notin {"init", "rsi_null", "z_null"}

\* C15: once a classifier has had enough history for the window it used, it
\* has enough on every later tick: it never returns to the insufficient-history
\* result.
C15_WindowStaysCovered ==
    [][/\ SlopeCovered => SlopeCovered'
       /\ MomentumCovered => MomentumCovered']_vars

(***************************************************************************)
(* Adaptive windows                                                        *)
(***************************************************************************)
\* C16: with adaptivity enabled, the window a classifier uses on a tick lies
\* within [adaptiveMinWindow, adaptiveMaxWindow], warm-up ticks included.
C16_AdaptiveWindowClamped ==
    /\ (clsTick.slope.branch # "init" /\ clsOptions.slope.adaptive)
         => /\ clsOptions.slope.adaptiveMinWindow <= clsTick.slope.window
            /\ clsTick.slope.window <= clsOptions.slope.adaptiveMaxWindow
    /\ (clsTick.momentum.branch # "init" /\ clsOptions.momentum.adaptive)
         => /\ clsOptions.momentum.adaptiveMinWindow <= clsTick.momentum.window
            /\ clsTick.momentum.window <= clsOptions.momentum.adaptiveMaxWindow

(***************************************************************************)
(* Insufficient history                                                    *)
(***************************************************************************)
\* C17: on a tick where the Trend Classifier's history is shorter than its
\* window, or the Oscillator Engine returned null, or the Momentum Fusion
\* history is shorter than the z-window, the stage returns Neutral with
\* confidence 0.
C17_InsufficientHistoryIsNeutral ==
    /\ (clsTick.slope.branch # "init"
        /\ Len(slopeSignAnalyzer.history) < clsTick.slope.window)
         => clsTick.slope.result = [tradeSignal |-> "neutral", confidence |-> 0]
    /\ (clsTick.momentum.branch # "init"
        /\ \/ clsTick.momentum.branch = "rsi_null"
           \/ Len(momentumCompositeAnalyzer.history) < clsTick.momentum.window)
         => clsTick.momentum.result = [tradeSignal |-> "neutral", confidence |-> 0]

\* After warm-up the Momentum Fusion history has been cut below the z-window
\* and the stage has returned Neutral/0, on a tick where the Trend Classifier
\* still lacks samples for its window.
C17_Witness ==
    /\ clsTicks >= 2
    /\ Len(slopeSignAnalyzer.history) < clsTick.slope.window
    /\ clsTick.slope.result = [tradeSignal |-> "neutral", confidence |-> 0]
    /\ clsTick.momentum.branch = "z_null"
    /\ Len(momentumCompositeAnalyzer.history) < clsTick.momentum.window
    /\ clsTick.momentum.result = [tradeSignal |-> "neutral", confidence |-> 0]

(***************************************************************************)
(* A DeltaFilterAnalyzer driven on its own: constructed, then update       *)
(* called with finite and non-finite numbers and reset called, in any      *)
(* order.  Beside it run the filter that is spared the non-finite calls    *)
(* and the filter constructed anew at every reset of the first.            *)
(***************************************************************************)
MaxFilterCalls == 4

Finite(v) == [kind |-> "finite", value |-> v]

NaN == [kind |-> "NaN", value |-> 0]

PositiveInfinity == [kind |-> "Infinity", value |-> 1]

NegativeInfinity == [kind |-> "Infinity", value |-> -1]

\* Number.isFinite
NumberIsFinite(x) == x.kind = "finite"

DeltaFilterReject_DropsResidual(f) ==
    [state |-> [f EXCEPT !.residual = 0], filtered |-> f.lastFiltered]

\* update's guard: a non-finite raw score returns lastFiltered and assigns
\* nothing
DeltaFilterReject(f) ==
    [state |-> f, filtered |-> f.lastFiltered]

\* DeltaFilterAnalyzer.update on any number
DeltaFilterUpdateNumber(o, f, rawScore) ==
    IF ~NumberIsFinite(rawScore)
    THEN DeltaFilterReject(f)
    ELSE LET r == DeltaFilterUpdate(o, f, rawScore.value)
         IN  [state |-> r.state, filtered |-> r.filtered]

DeltaFilterReset_StaysInitialized(f) ==
    [f EXCEPT !.lastFiltered = 0, !.residual = 0]

\* DeltaFilterAnalyzer.reset
DeltaFilterReset(f) ==
    [f EXCEPT !.initialized = FALSE, !.lastFiltered = 0, !.residual = 0]

FilterSmoothing == [alpha |-> 50, maxJump |-> 40, freezeThreshold |-> 5]

\* alpha below the constructor's floor, and no step allowed at all
FilterFloor == [alpha |-> 0, maxJump |-> 0, freezeThreshold |-> 0]

\* a deadband, and no step allowed at all
FilterStuck == [alpha |-> One, maxJump |-> 0, freezeThreshold |-> 5]

DfOptionChoices ==
    {FilterPassThrough, FilterClamped, FilterSmoothing, FilterFloor, FilterStuck}

DfInputs ==
    {Finite(v) : v \in {-100, -3, 1, 2, 60}}
        \cup {NaN, PositiveInfinity, NegativeInfinity}

DfInit ==
    /\ WmIdle
    /\ TsaIdle /\ ClsIdle /\ FilterIdle /\ ReplayIdle /\ LiveIdle /\ AgentIdle

NewDeltaFilterAnalyzer ==
    /\ dfCall.op = "none"
    /\ \E options \in DfOptionChoices :
         /\ dfOptions' = DeltaFilterConstruct(options)
         /\ dfCall' = [op |-> "new"]
    /\ dfFilter' = DeltaFilterInitState
    /\ dfSkipped' = DeltaFilterInitState
    /\ dfFresh' = [resets |-> 0, filter |-> DeltaFilterInitState,
                   wiped |-> DeltaFilterInitState]
    /\ UNCHANGED <<dfAccepted, dfCalls>>
    /\ UNCHANGED <<pipelineVars, replayVars, liveVars, agentVars, twinVars, sessVars,
                   ctorVars, wmVars, tkVars, maVars, hmVars>>

DfUpdate ==
    /\ dfCall.op # "none"
    /\ dfCalls < MaxFilterCalls
    /\ \E rawScore \in DfInputs :
         LET r == DeltaFilterUpdateNumber(dfOptions, dfFilter, rawScore)
             fresh == DeltaFilterUpdateNumber(dfOptions, dfFresh.filter, rawScore)
             skipped == IF NumberIsFinite(rawScore)
                        THEN DeltaFilterUpdateNumber(dfOptions, dfSkipped, rawScore)
                        ELSE [state |-> dfSkipped, filtered |-> 0]
         IN  /\ dfFilter' = r.state
             /\ dfSkipped' = skipped.state
             /\ dfFresh' = [dfFresh EXCEPT !.filter = fresh.state]
             /\ dfAccepted' = IF NumberIsFinite(rawScore)
                              THEN [dfAccepted EXCEPT
                                      !.any = TRUE, !.sinceReset = TRUE,
                                      !.out = r.filtered,
                                      !.first = IF dfCalls = 0 THEN rawScore.value ELSE @,
                                      !.constant = @ /\ (dfCalls > 0
                                                           => rawScore.value = dfAccepted.first),
                                      !.lo = IF dfFilter.initialized
                                             THEN Min(@, rawScore.value)
                                             ELSE rawScore.value,
                                      !.hi = IF dfFilter.initialized
                                             THEN Max(@, rawScore.value)
                                             ELSE rawScore.value]
                              ELSE [dfAccepted EXCEPT !.rejected = @ + 1,
                                                      !.constant = FALSE]
             /\ dfCall' = [op |-> "update", rawScore |-> rawScore, before |-> dfFilter,
                           accepted |-> dfAccepted, out |-> r.filtered,
                           skippedOut |-> skipped.filtered, freshOut |-> fresh.filtered]
    /\ dfCalls' = dfCalls + 1
    /\ UNCHANGED dfOptions
    /\ UNCHANGED <<pipelineVars, replayVars, liveVars, agentVars, twinVars, sessVars,
                   ctorVars, wmVars, tkVars, maVars, hmVars>>

DfReset ==
    /\ dfCall.op # "none"
    /\ dfCalls < MaxFilterCalls
    /\ dfFilter' = DeltaFilterReset(dfFilter)
    /\ dfSkipped' = DeltaFilterReset(dfSkipped)
    /\ dfFresh' = [resets |-> dfFresh.resets + 1, filter |-> DeltaFilterInitState,
                   wiped |-> dfFilter]
    /\ dfAccepted' = [dfAccepted EXCEPT !.sinceReset = FALSE, !.constant = FALSE]
    /\ dfCall' = [op |-> "reset"]
    /\ dfCalls' = dfCalls + 1
    /\ UNCHANGED dfOptions
    /\ UNCHANGED <<pipelineVars, replayVars, liveVars, agentVars, twinVars, sessVars,
                   ctorVars, wmVars, tkVars, maVars, hmVars>>

DfNext ==
    \/ NewDeltaFilterAnalyzer
    \/ DfUpdate
    \/ DfReset

SpecFilter == DfInit /\ [][DfNext]_vars

(***************************************************************************)
(* The filter under a raw score that stays where it is: after any calls,   *)
(* once the raw score of the last call lies inside the deadband around the *)
(* filtered output, every further tick brings that raw score again, until  *)
(* the residual has left the deadband.                                     *)
(***************************************************************************)
DbUpdate ==
    /\ dfCall.op # "hold"
    /\ DfUpdate

DbReset ==
    /\ dfCall.op # "hold"
    /\ DfReset

DfHold ==
    /\ dfCall.op \in {"update", "hold"}
    /\ NumberIsFinite(dfCall.rawScore)
    /\ dfFilter.initialized
    /\ IF dfCall.op = "hold"
       THEN ~dfCall.reached
       ELSE /\ dfCall.rawScore.value # dfFilter.lastFiltered
            /\ Abs(dfCall.rawScore.value - dfFilter.lastFiltered) < dfOptions.freezeThreshold
    /\ \E r \in {DeltaFilterUpdate(dfOptions, dfFilter, dfCall.rawScore.value)} :
         /\ dfFilter' = r.state
         /\ dfCall' = [op |-> "hold", rawScore |-> dfCall.rawScore, before |-> dfFilter,
                       out |-> r.filtered, reached |-> ~r.froze,
                       held |-> IF dfCall.op = "hold" THEN dfCall.held + 1 ELSE 1]
    /\ UNCHANGED <<dfOptions, dfSkipped, dfFresh, dfAccepted, dfCalls>>
    /\ UNCHANGED <<pipelineVars, replayVars, liveVars, agentVars, twinVars, sessVars,
                   ctorVars, wmVars, tkVars, maVars, hmVars>>

DbNext ==
    \/ NewDeltaFilterAnalyzer
    \/ DbUpdate
    \/ DbReset
    \/ DfHold

\* Ticks keep coming: the held raw score is always offered again
SpecDeadband == DfInit /\ [][DbNext]_vars /\ WF_vars(DfHold)

\* C18 (as amended): update with NaN, +Infinity or -Infinity returns
\* lastFiltered, which is the output of the last accepted call since the
\* filter was constructed or last reset and 0 when there was none, and leaves
\* lastFiltered, initialized and residual as they were; the filter is at all
\* times in the state of the filter that was spared the non-finite calls, and
\* every accepted call returns what that filter returns.
C18_NonFiniteInputIgnored ==
    /\ dfSkipped = dfFilter
    /\ dfCall.op = "update" =>
         IF NumberIsFinite(dfCall.rawScore)
         THEN dfCall.out = dfCall.skippedOut
         ELSE /\ dfFilter = dfCall.before
              /\ dfCall.out = dfCall.before.lastFiltered
              /\ dfCall.out = IF dfCall.accepted.sinceReset
                              THEN dfCall.accepted.out
                              ELSE 0

\* An accepted call made after a non-finite one, on a filter that was then
\* carrying a residual
C18_Witness ==
    /\ dfCall.op = "update"
    /\ NumberIsFinite(dfCall.rawScore)
    /\ dfAccepted.rejected > 0
    /\ dfCall.before.initialized
    /\ dfCall.before.residual # 0
    /\ dfCall.out # dfCall.before.lastFiltered
    /\ dfCall.out = dfCall.skippedOut

\* C18 as stated: a non-finite call returns the output of the last accepted
\* call, whatever was called in between.
C18_Original ==
    (/\ dfCall.op = "update"
     /\ ~NumberIsFinite(dfCall.rawScore)
     /\ dfCall.accepted.any)
        => dfCall.out = dfCall.accepted.out

\* C19: once reset() has been called, every update returns what a filter
\* newly constructed with the same options at the time of the reset returns
\* for the inputs given since, and the first accepted update after the reset
\* returns its input and re-seeds the filter.
C19_ResetIsFreshFilter ==
    dfFresh.resets >= 1 =>
        /\ dfFilter = dfFresh.filter
        /\ dfCall.op = "update" =>
             /\ dfCall.out = dfCall.freshOut
             /\ (NumberIsFinite(dfCall.rawScore) /\ ~dfCall.accepted.sinceReset) =>
                  /\ dfCall.out = dfCall.rawScore.value
                  /\ dfFilter = [lastFiltered |-> dfCall.rawScore.value,
                                 initialized |-> TRUE, residual |-> 0]

\* A filter that had accepted a score is reset, re-seeded by one update and
\* then smooths the next
C19_Witness ==
    /\ dfFresh.resets >= 1
    /\ dfFresh.wiped.initialized
    /\ dfFresh.wiped.lastFiltered # 0
    /\ dfCall.op = "update"
    /\ NumberIsFinite(dfCall.rawScore)
    /\ dfCall.before.initialized
    /\ dfCall.out # dfCall.rawScore.value
    /\ dfCall.out = dfCall.freshOut

(***************************************************************************)
(* A WilderMomentumAnalyzer driven on its own: constructed with a period,  *)
(* then update called with one score after another.                        *)
(***************************************************************************)
MaxWilderCalls == 6

WilderPeriods == {0, 1, 2, 3}

\* Scores in quarters of EPS: a step of 1 stays below EPS
WilderValues == {0, 1, 5, 9, 13, 17, 21}

WmInit ==
    /\ TkIdle
    /\ TsaIdle /\ ClsIdle /\ FilterIdle /\ ReplayIdle /\ LiveIdle /\ AgentIdle

NewWilderMomentumAnalyzer ==
    /\ wmPeriod = 0
    /\ \E period \in WilderPeriods :
         wmPeriod' = Max(1, period)
    /\ wmState' = WilderInitState
    /\ UNCHANGED <<wmOut, wmCalls>>
    /\ UNCHANGED <<pipelineVars, replayVars, liveVars, agentVars, twinVars, sessVars,
                   ctorVars, dfVars, tkVars, maVars, hmVars>>

WmUpdate ==
    /\ wmPeriod >= 1
    /\ wmCalls < MaxWilderCalls
    /\ \E value \in WilderValues :
         LET r == WilderStep(wmPeriod, wmState, value, FineEPS)
             step == Abs(value - wmState.last)
         IN  /\ wmState' = r.state
             /\ wmOut' = [isNull |-> r.isNull, rsiNorm |-> r.rsiNorm,
                          rising |-> wmOut.rising
                                       /\ (wmState.hasLast => value > wmState.last),
                          falling |-> wmOut.falling
                                        /\ (wmState.hasLast => value < wmState.last),
                          minStep |-> IF ~wmState.hasLast THEN 0
                                      ELSE IF wmCalls = 1 THEN step
                                      ELSE Min(wmOut.minStep, step)]
    /\ wmCalls' = wmCalls + 1
    /\ UNCHANGED wmPeriod
    /\ UNCHANGED <<pipelineVars, replayVars, liveVars, agentVars, twinVars, sessVars,
                   ctorVars, dfVars, tkVars, maVars, hmVars>>

WmNext ==
    \/ NewWilderMomentumAnalyzer
    \/ WmUpdate

SpecWilder == WmInit /\ [][WmNext]_vars

\* C20: an engine with period p >= 1 returns null on each of its first p
\* update calls and a value on every later call; the first call records only
\* the baseline and each of the next p-1 calls adds one difference to the
\* warm-up.
C20_WarmupTakesPeriodCalls ==
    wmCalls >= 1 =>
        /\ wmOut.isNull <=> wmCalls <= wmPeriod
        /\ wmCalls <= wmPeriod =>
             /\ wmState.hasLast
             /\ ~wmState.seeded
             /\ Len(wmState.warmup) = wmCalls - 1
        /\ wmCalls > wmPeriod => wmState.seeded

\* The period-3 engine returns its first value, on the fourth call
C20_Witness ==
    /\ wmPeriod = 3
    /\ wmCalls = 4
    /\ ~wmOut.isNull
    /\ wmOut.rsiNorm # 0

\* C21 (as amended): when every input exceeds the previous one by at least
\* EPS (1e-8), every non-null output has rsiNorm exactly 1, the output after
\* period + 5 calls included; when every input is below the previous one by
\* at least EPS, every non-null output has rsiNorm exactly -1.
C21_MonotoneInputSaturates ==
    (~wmOut.isNull /\ wmOut.minStep * One >= FineEPS) =>
        /\ wmOut.rising => wmOut.rsiNorm = One
        /\ wmOut.falling => wmOut.rsiNorm = -One

\* The period-1 engine after 1 + 5 strictly increasing inputs
C21_Witness ==
    /\ wmPeriod = 1
    /\ wmCalls = wmPeriod + 5
    /\ wmOut.rising
    /\ wmOut.minStep * One >= FineEPS
    /\ wmOut.rsiNorm = One

\* C21 as stated: strictly increasing inputs give rsiNorm 1 on every non-null
\* output and strictly decreasing inputs give -1, however small the steps.
C21_Original ==
    ~wmOut.isNull =>
        /\ wmOut.rising => wmOut.rsiNorm = One
        /\ wmOut.falling => wmOut.rsiNorm = -One

\* C22: while every call made on a filter since its construction is update
\* with one and the same finite score c, every call returns c, lastFiltered
\* stays c and residual stays 0, whatever alpha, maxJump and freezeThreshold
\* are (freezeThreshold 0 included).
C22_ConstantInputHolds ==
    (dfCall.op = "update" /\ dfAccepted.constant) =>
        /\ dfCall.out = dfAccepted.first
        /\ dfFilter.lastFiltered = dfAccepted.first
        /\ dfFilter.residual = 0

\* The fourth update with the same non-zero score, on a filter without
\* deadband
C22_Witness ==
    /\ dfCall.op = "update"
    /\ dfAccepted.constant
    /\ dfCalls = MaxFilterCalls
    /\ dfAccepted.first # 0
    /\ dfOptions.freezeThreshold = 0
    /\ dfOptions.alpha < One
    /\ dfCall.out = dfAccepted.first

\* C23: the first accepted update(x) on a new filter returns exactly x and
\* leaves lastFiltered = x, initialized, residual = 0, for every alpha,
\* maxJump and freezeThreshold.
C23_ColdStartSeeds ==
    (/\ dfCall.op = "update"
     /\ NumberIsFinite(dfCall.rawScore)
     /\ dfFresh.resets = 0
     /\ ~dfCall.accepted.any) =>
        /\ dfCall.out = dfCall.rawScore.value
        /\ dfFilter = [lastFiltered |-> dfCall.rawScore.value, initialized |-> TRUE,
                       residual |-> 0]

\* A first score beyond maxJump and inside the deadband of no filter, taken
\* as it is by a smoothing, capped filter
C23_Witness ==
    /\ dfCall.op = "update"
    /\ dfCalls = 1
    /\ NumberIsFinite(dfCall.rawScore)
    /\ dfOptions.alpha < One
    /\ Abs(dfCall.rawScore.value) > dfOptions.maxJump
    /\ dfCall.out = dfCall.rawScore.value
    /\ dfFilter.residual = 0

\* The upstream signals of a stored tuple agree on Buy or agree on Sell
Unanimous(entry) ==
    \/ /\ entry.slopeSignTradeSignal.tradeSignal = Buy
       /\ entry.momentumCompositeTradeSignal.tradeSignal = Buy
    \/ /\ entry.slopeSignTradeSignal.tradeSignal = Sell
       /\ entry.momentumCompositeTradeSignal.tradeSignal = Sell

LastEntry == tsaHistory[Len(tsaHistory)]

\* C24: in unanimous mode the tuple of a tick whose upstream signals are not
\* both Buy or both Sell has score 0 and weight 0 whatever the confidences
\* are, so that alone in the window it leaves no consensus and the sums of
\* the window are those of the window without it.
C24_UnanimousNeedsAgreement ==
    (tsaTick.called /\ tsaOptions.fusionMode = "unanimous" /\ ~Unanimous(LastEntry)) =>
        /\ computeTickFusion(tsaOptions, LastEntry).scoreNum = 0
        /\ computeTickFusion(tsaOptions, LastEntry).tickConfidence2 = 0
        /\ LET rest == computeConsensus(tsaOptions,
                                        SubSeq(tsaHistory, 1, Len(tsaHistory) - 1))
           IN  /\ rest.none <=> tsaTick.consensusSignal = "none"
               /\ tsaTick.scoreNum = rest.totalScore2
               /\ tsaTick.scoreDen = rest.totalConfidence2

\* Buy with full confidence beside Neutral with confidence one half, alone
\* in the window of a unanimous analyzer: no consensus
C24_Witness ==
    /\ tsaTick.called
    /\ tsaOptions.fusionMode = "unanimous"
    /\ Len(tsaHistory) = 1
    /\ LastEntry.slopeSignTradeSignal = Result(Neutral, Half)
    /\ LastEntry.momentumCompositeTradeSignal = Result(Buy, One)
    /\ tsaTick.consensusSignal = "none"
    /\ tsaTick.result = NeutralResult

\* C25: a Buy or Sell returned by update carries the confidence
\* min(1, |consensusScore|) of that tick, which is at least
\* min(buyThreshold, |sellThreshold|) > 0; every other tick (no consensus,
\* score between the thresholds, sentiment veto, repeat suppressed) returns
\* confidence exactly 0.
C25_ConfidenceOfEmission ==
    tsaTick.called =>
        IF tsaTick.result.tradeSignal \in {Buy, Sell}
        THEN /\ tsaTick.reason = "signal_emitted_once"
             /\ tsaTick.scoreDen > 0
             /\ tsaTick.result.confidence
                  = Min(One, (Abs(tsaTick.scoreNum) * One) \div tsaTick.scoreDen)
             /\ tsaTick.result.confidence
                  >= Min(tsaOptions.buyThreshold, -tsaOptions.sellThreshold)
             /\ Min(tsaOptions.buyThreshold, -tsaOptions.sellThreshold) > 0
        ELSE /\ tsaTick.result.confidence = 0
             /\ tsaTick.reason \in {"no_confidence", "neutral", "consensus_held",
                                    "sentiment_buy_threshold_not_met",
                                    "sentiment_sell_threshold_not_met"}

\* A Sell emitted with a confidence strictly between the threshold and 1
C25_Witness ==
    /\ tsaTick.called
    /\ tsaTick.result.tradeSignal = Sell
    /\ tsaTick.scoreNum < 0
    /\ tsaTick.result.confidence > -tsaOptions.sellThreshold
    /\ tsaTick.result.confidence < One

(***************************************************************************)
(* TradeManagerService.tick hands each captured frame to analyzeTick of    *)
(* every active controller and awaits them all before the next tick is     *)
(* scheduled.  TradeController.analyzeTick numbers the 'tick' event it      *)
(* emits with a counter of its own that starts at 1.                       *)
(***************************************************************************)
MaxTkControllers == 2

MaxServiceTicks == 3

TkController ==
    [active |-> FALSE, started |-> FALSE, tickId |-> 0, pending |-> FALSE,
     submitted |-> 0, emitted |-> <<>>]

NextTickId_Repeats(c) == Max(1, c.tickId)

\* The tickId analyzeTick gives the tick it analyses
NextTickId(c) == c.tickId + 1

\* analyzeTick resolved: the tick is numbered and emitted
analyzeTick(c) ==
    [c EXCEPT !.tickId = NextTickId(c),
              !.emitted = Append(c.emitted, NextTickId(c)),
              !.pending = FALSE]

TkInit ==
    /\ MaIdle
    /\ TsaIdle /\ ClsIdle /\ FilterIdle /\ ReplayIdle /\ LiveIdle /\ AgentIdle

TkAddTradeController ==
    /\ Len(tkControllers) < MaxTkControllers
    /\ tkControllers' = Append(tkControllers, TkController)
    /\ UNCHANGED tkService
    /\ UNCHANGED <<pipelineVars, replayVars, liveVars, agentVars, twinVars, sessVars,
                   ctorVars, dfVars, wmVars, maVars, hmVars>>

\* startController: the controller becomes active
TkStartController ==
    /\ \E k \in DOMAIN tkControllers :
         /\ ~tkControllers[k].started
         /\ tkControllers' = [tkControllers EXCEPT ![k].active = TRUE,
                                                   ![k].started = TRUE]
    /\ UNCHANGED tkService
    /\ UNCHANGED <<pipelineVars, replayVars, liveVars, agentVars, twinVars, sessVars,
                   ctorVars, dfVars, wmVars, maVars, hmVars>>

\* stopController: the controller is passed over by later ticks
TkStopController ==
    /\ \E k \in DOMAIN tkControllers :
         /\ tkControllers[k].active
         /\ tkControllers' = [tkControllers EXCEPT ![k].active = FALSE]
    /\ UNCHANGED tkService
    /\ UNCHANGED <<pipelineVars, replayVars, liveVars, agentVars, twinVars, sessVars,
                   ctorVars, dfVars, wmVars, maVars, hmVars>>

\* The timeout fires: tick() captures a frame and calls analyzeTick on every
\* active controller
ServiceTickStarts ==
    /\ ~tkService.running
    /\ tkService.ticks < MaxServiceTicks
    /\ tkService' = [running |-> TRUE, ticks |-> tkService.ticks + 1]
    /\ tkControllers' =
         [k \in DOMAIN tkControllers |->
            IF tkControllers[k].active
            THEN [tkControllers[k] EXCEPT !.pending = TRUE, !.submitted = @ + 1]
            ELSE tkControllers[k]]
    /\ UNCHANGED <<pipelineVars, replayVars, liveVars, agentVars, twinVars, sessVars,
                   ctorVars, dfVars, wmVars, maVars, hmVars>>

\* One controller's analyzeTick resolves
AnalyzeTickDone ==
    /\ \E k \in DOMAIN tkControllers :
         /\ tkControllers[k].pending
         /\ tkControllers' = [tkControllers EXCEPT ![k] = analyzeTick(tkControllers[k])]
    /\ UNCHANGED tkService
    /\ UNCHANGED <<pipelineVars, replayVars, liveVars, agentVars, twinVars, sessVars,
                   ctorVars, dfVars, wmVars, maVars, hmVars>>

\* Promise.all(tickPromises) resolved: runningTick is cleared and the next
\* tick is scheduled
ServiceTickEnds ==
    /\ tkService.running
    /\ \A k \in DOMAIN tkControllers : ~tkControllers[k].pending
    /\ tkService' = [tkService EXCEPT !.running = FALSE]
    /\ UNCHANGED tkControllers
    /\ UNCHANGED <<pipelineVars, replayVars, liveVars, agentVars, twinVars, sessVars,
                   ctorVars, dfVars, wmVars, maVars, hmVars>>

TkNext ==
    \/ TkAddTradeController
    \/ TkStartController
    \/ TkStopController
    \/ ServiceTickStarts
    \/ AnalyzeTickDone
    \/ ServiceTickEnds

SpecTickIds == TkInit /\ [][TkNext]_vars

SlopeTickConfidence ==
    baseConfidence(clsOptions.slope,
                   computeSlope(LastN(slopeSignAnalyzer.history, clsTick.slope.window)))

\* C27: with hysteresisCount <= 0 every tick with sufficient history and a
\* non-flat direction returns Buy (up) or Sell (down) with confidence
\* min(1, confidence * confidenceMultiplier), and the confirmed direction
\* becomes the observed direction on that tick.
C27_InstantFlipConfidence ==
    (/\ clsOptions.slope.hysteresisCount <= 0
     /\ clsTick.slope.direction \in {Up, Down}) =>
        /\ clsTick.slope.result.tradeSignal
             = (IF clsTick.slope.direction = Up THEN Buy ELSE Sell)
        /\ slopeSignAnalyzer.lastDirection = clsTick.slope.direction
        /\ clsTick.slope.result.confidence
             = Min(One, (SlopeTickConfidence * clsOptions.slope.confidenceMultiplier)
                           \div One)

\* What the code does on such a tick: the signal and the confirmed direction
\* follow the observed direction, the confidence is the slope confidence
\* itself
C27_InstantFlipAsCoded ==
    (/\ clsOptions.slope.hysteresisCount <= 0
     /\ clsTick.slope.direction \in {Up, Down}) =>
        /\ clsTick.slope.result.tradeSignal
             = (IF clsTick.slope.direction = Up THEN Buy ELSE Sell)
        /\ slopeSignAnalyzer.lastDirection = clsTick.slope.direction
        /\ clsTick.slope.result.confidence = SlopeTickConfidence

\* C28: on the tick on which the Momentum Fusion Analyzer confirms a flip and
\* returns Buy or Sell, the confidence is min(1, |composite|) with no decay
\* applied; decay applies only to an intent that repeats the direction of a
\* signal confirmed on an earlier tick.
C28_NoDecayOnFlip ==
    clsTick.momentum.branch = "flip" =>
        clsTick.momentum.result.confidence = Min(One, Abs(clsTick.momentum.composite))

\* What the code does on that tick: lastSignal has just become the intent, so
\* the persistence counter goes to 1 and one step of decay is applied
C28_FlipDecaysOneStep ==
    clsTick.momentum.branch = "flip" =>
        /\ clsTick.momentum.persistenceSteps = 1
        /\ clsTick.momentum.result.confidence
             = (Min(One, Abs(clsTick.momentum.composite))
                  * ExpNeg(clsOptions.momentum.confidenceDecayRate, 1)) \div One

\* C29: Trend Classifier hysteresis counters (hysteresisCount >= 1). A flat
\* observation, or one equal to the confirmed direction, puts the agreement
\* count at 0 and clears the pending candidate; an observation that differs
\* from the confirmed direction counts one more for the pending candidate, or
\* restarts at 1 for a new (opposite) candidate; a flip is confirmed exactly
\* on the tick where that count reaches hysteresisCount, after which the
\* confirmed direction is the candidate, no candidate is pending, and the
\* agreement and persistence counters are 0.
C29_HysteresisCounters ==
    [][ClsUpdateAction =>
        LET o == clsOptions.slope
            s == slopeSignAnalyzer
            t == slopeSignAnalyzer'
            d == clsTick'.slope.direction
            agreed == IF s.candidateDirection = d THEN s.stableCount + 1 ELSE 1
            flipped == clsTick'.slope.result.tradeSignal # Neutral
            differs == d \in {Up, Down} /\ d # s.lastDirection
        IN  (o.hysteresisCount >= 1) =>
              /\ s.stableCount < o.hysteresisCount
              /\ ((d = Flat \/ (d \in {Up, Down} /\ d = s.lastDirection)) =>
                    /\ t.stableCount = 0
                    /\ t.candidateDirection = NoCandidate
                    /\ t.lastDirection = s.lastDirection
                    /\ ~flipped)
              /\ ((differs /\ agreed < o.hysteresisCount) =>
                    /\ t.stableCount = agreed
                    /\ t.candidateDirection = d
                    /\ t.lastDirection = s.lastDirection
                    /\ t.persistenceSteps = 0
                    /\ ~flipped)
              /\ (flipped <=> (differs /\ agreed = o.hysteresisCount))
              /\ (flipped =>
                    /\ t.lastDirection = d
                    /\ t.candidateDirection = NoCandidate
                    /\ t.stableCount = 0
                    /\ t.persistenceSteps = 0
                    /\ clsTick'.slope.result.tradeSignal
                         = (IF d = Up THEN Buy ELSE Sell))]_vars

\* A downward observation has replaced a pending upward candidate (or the
\* reverse) and counts 1 for the new candidate
C29_Witness ==
    /\ clsOptions.slope.hysteresisCount >= 2
    /\ clsTick.slope.run.count = 1
    /\ clsTick.slope.run.alternations >= 1
    /\ slopeSignAnalyzer.candidateDirection = clsTick.slope.direction
    /\ slopeSignAnalyzer.stableCount = 1
    /\ clsTick.slope.result.tradeSignal = Neutral

\* C29 as stated: the agreement count is zero after any observation that
\* differs from the pending candidate, the opposite candidate included.
C29_Original ==
    [][ClsUpdateAction =>
        ((/\ clsOptions.slope.hysteresisCount >= 1
          /\ slopeSignAnalyzer.candidateDirection # NoCandidate
          /\ clsTick'.slope.direction # "none"
          /\ clsTick'.slope.direction # slopeSignAnalyzer.candidateDirection)
            => slopeSignAnalyzer'.stableCount = 0)]_vars

\* C30: Noise Filter step cap. On every update of a seeded filter the output
\* changes by at most maxJump, and never against the sign of the accumulated
\* residual; inside the deadband the output does not move and the residual
\* stays queued; outside the deadband, when the desired step alpha x residual
\* is not capped, the residual left after the update is below one unit of
\* output step (zero up to the rounding of the step), and is exactly zero
\* when alpha is 1.
C30_StepCap ==
    (/\ dfCall.op = "update"
     /\ dfCall.before.initialized) =>
        LET o == dfOptions
            step == dfCall.out - dfCall.before.lastFiltered
        IN  /\ Abs(step) <= o.maxJump
            /\ NumberIsFinite(dfCall.rawScore) =>
                 LET residualBefore == dfCall.before.residual
                                         + (dfCall.rawScore.value - dfCall.before.lastFiltered)
                     desired == (o.alpha * Abs(residualBefore)) \div One
                     frozen == Abs(residualBefore) < o.freezeThreshold
                 IN  /\ step * Sign(residualBefore) >= 0
                     /\ frozen => (step = 0 /\ dfFilter.residual = residualBefore)
                     /\ (~frozen /\ desired <= o.maxJump) =>
                           /\ Abs(step) = desired
                           /\ Abs(dfFilter.residual) * o.alpha < One
                     /\ (~frozen /\ desired > o.maxJump) =>
                           /\ Abs(step) = o.maxJump
                           /\ dfFilter.residual # 0

\* A seeded smoothing filter has left its deadband with an uncapped step and
\* nothing is left queued
C30_Witness ==
    /\ dfCall.op = "update"
    /\ dfCall.before.initialized
    /\ NumberIsFinite(dfCall.rawScore)
    /\ dfOptions.freezeThreshold > 0
    /\ dfOptions.alpha < One
    /\ dfCall.out # dfCall.before.lastFiltered
    /\ Abs(dfCall.out - dfCall.before.lastFiltered) < dfOptions.maxJump
    /\ dfFilter.residual = 0

\* C30 as stated: whenever the desired step is not capped, nothing is left
\* queued after the update (read up to the rounding of the step).
C30_Original ==
    (/\ dfCall.op = "update"
     /\ dfCall.before.initialized
     /\ NumberIsFinite(dfCall.rawScore)) =>
        LET residualBefore == dfCall.before.residual
                                + (dfCall.rawScore.value - dfCall.before.lastFiltered)
            desired == (dfOptions.alpha * Abs(residualBefore)) \div One
        IN  (desired <= dfOptions.maxJump) =>
                Abs(dfFilter.residual) * dfOptions.alpha < One

\* C31: the Noise Filter's deadband is not permanent. While the raw score
\* stays at a value inside the deadband around the filtered output and
\* |residual| < freezeThreshold, the output is held and the residual grows by
\* the same difference every tick; after finitely many ticks |residual|
\* reaches freezeThreshold, and then the output moves if maxJump > 0.
C31_DeadbandIsLeft ==
    /\ [](dfCall.op = "hold" =>
            LET d == dfCall.rawScore.value - dfCall.before.lastFiltered
            IN  /\ dfCall.reached => Abs(dfCall.before.residual + d) >= dfOptions.freezeThreshold
                /\ ~dfCall.reached =>
                      /\ d # 0
                      /\ dfCall.out = dfCall.before.lastFiltered
                      /\ dfFilter.lastFiltered = dfCall.before.lastFiltered
                      /\ dfFilter.residual = dfCall.before.residual + d
                      /\ Abs(dfFilter.residual) < dfOptions.freezeThreshold)
    /\ (dfCall.op = "hold")
          ~> (/\ dfCall.op = "hold"
              /\ dfCall.reached
              /\ dfOptions.maxJump > 0 => dfCall.out # dfCall.before.lastFiltered)

\* The output has moved after being held through several ticks of the same
\* raw score
C31_Witness ==
    /\ dfCall.op = "hold"
    /\ dfCall.held >= 3
    /\ dfCall.reached
    /\ dfCall.out # dfCall.before.lastFiltered

\* C31 as stated: once |residual| has reached freezeThreshold the filtered
\* output moves.
C31_Original ==
    (dfCall.op = "hold" /\ dfCall.reached) => dfCall.out # dfCall.before.lastFiltered

\* C32: the Noise Filter never overshoots its input: after the first sample
\* the filtered output lies between the smallest and the largest raw score
\* received since the filter was seeded.
C32_NeverOvershoots ==
    (dfCall.op = "update" /\ dfFilter.initialized) =>
        /\ dfAccepted.lo <= dfFilter.lastFiltered
        /\ dfFilter.lastFiltered <= dfAccepted.hi

\* C33: Consensus Fusion Analyzer, direct reversal. While a signal is held as
\* emitted, a consensus of the opposite (or the same) direction returns
\* Neutral and leaves lastEmittedSignal as it is; update returns a
\* non-Neutral result only if a tick with a Neutral consensus has come since
\* the previous non-Neutral result; a tick vetoed by the sentiment gate
\* leaves lastEmittedSignal unchanged.
C33_NoDirectReversal ==
    [][TsaUpdateAction =>
        /\ (lastEmittedSignal # Neutral /\ tsaTick'.consensusSignal \in {Buy, Sell}) =>
              /\ tsaTick'.result = NeutralResult
              /\ lastEmittedSignal' = lastEmittedSignal
        /\ (tsaTick'.result.tradeSignal # Neutral) =>
              /\ tsaTick.neutralSince
              /\ lastEmittedSignal = Neutral
              /\ lastEmittedSignal' = tsaTick'.result.tradeSignal
        /\ (tsaTick'.reason \in {"sentiment_buy_threshold_not_met",
                                 "sentiment_sell_threshold_not_met"}) =>
              lastEmittedSignal' = lastEmittedSignal]_vars

\* Buy is held as emitted, the consensus has gone to Sell with the sentiment
\* gate satisfied, and nothing is returned
C33_Witness ==
    /\ tsaTick.called
    /\ tsaTick.before = Buy
    /\ tsaTick.consensusSignal = Sell
    /\ ~SentimentSellVeto(tsaOptions, tsaTick.consensusSignal, tsaTick.sentimentScore)
    /\ ~tsaTick.neutralSince
    /\ tsaTick.result = NeutralResult
    /\ lastEmittedSignal = Buy

\* C34: Buy and Sell emissions alternate. For the Trend Classifier with
\* hysteresisCount >= 1 and for the Momentum Fusion Analyzer, the confirmed
\* direction, once set, never returns to flat/neutral, and a non-Neutral
\* result is always the opposite of the stage's previous non-Neutral result.
C34_EmissionsAlternate ==
    [][ClsUpdateAction =>
        /\ (clsOptions.slope.hysteresisCount >= 1) =>
              /\ (slopeSignAnalyzer.lastDirection # Flat) =>
                     slopeSignAnalyzer'.lastDirection # Flat
              /\ (clsTick'.slope.result.tradeSignal # Neutral) =>
                     clsTick'.slope.result.tradeSignal # clsTick.slope.emitted.last
        /\ (momentumCompositeAnalyzer.lastSignal # Neutral) =>
               momentumCompositeAnalyzer'.lastSignal # Neutral
        /\ (clsTick'.momentum.result.tradeSignal # Neutral) =>
               clsTick'.momentum.result.tradeSignal # clsTick.momentum.emitted.last]_vars

\* Both stages have returned a second non-Neutral result
C34_Witness ==
    /\ clsOptions.slope.hysteresisCount >= 1
    /\ clsTick.slope.emitted.count >= 2
    /\ clsTick.momentum.emitted.count >= 2

(***************************************************************************)
(* A MovingAverageAnalyzer with adaptivity disabled, fed any scores.       *)
(***************************************************************************)
MaxMaCalls == 6

MaScores == {0, 1, 2, 3}

\* Options the constructor accepts (longWindow > shortWindow)
MaOptionChoices ==
    {o \in [shortWindow : {1, 2}, longWindow : {2, 3}, hysteresisCount : {1, 2, 3},
            adaptive : {FALSE}] :
        MovingAverageOptionsValid(o)}

MaInit ==
    /\ TkInit

MaConstruct ==
    /\ ~maTick.constructed
    /\ maOptions' \in MaOptionChoices
    /\ maState' = MovingAverageInitState
    /\ maTick' = [NoMaTick EXCEPT !.constructed = TRUE]
    /\ UNCHANGED maCalls
    /\ UNCHANGED <<pipelineVars, replayVars, liveVars, agentVars, twinVars, sessVars,
                   ctorVars, dfVars, wmVars, tkVars, hmVars>>

MaUpdateAction ==
    /\ maTick.constructed
    /\ maCalls < MaxMaCalls
    /\ \E score \in MaScores :
         \E u \in {MovingAverageUpdate(maOptions, maState, score)} :
            /\ maState' = u.state
            /\ maTick' = [constructed |-> TRUE, intent |-> u.intent,
                          previousIntent |-> maTick.intent,
                          tradeSignal |-> u.tradeSignal]
    /\ maCalls' = maCalls + 1
    /\ UNCHANGED maOptions
    /\ UNCHANGED <<pipelineVars, replayVars, liveVars, agentVars, twinVars, sessVars,
                   ctorVars, dfVars, wmVars, tkVars, hmVars>>

MaNext ==
    \/ MaConstruct
    \/ MaUpdateAction

SpecCrossover == MaInit /\ [][MaNext]_vars

\* C35: with adaptivity disabled the moving-average crossover analyzer
\* produces a Buy (or Sell) intent only on the tick of the crossover: the
\* same non-neutral intent never occurs on two consecutive ticks, the
\* hysteresis buffer never exceeds 1, and with hysteresisCount >= 2 every
\* tick returns Neutral.
C35_CrossoverIntentIsOneTick ==
    (maTick.constructed /\ ~maOptions.adaptive) =>
        /\ (maTick.intent \in {Buy, Sell}) => maTick.previousIntent # maTick.intent
        /\ (maTick.intent = Buy) <=>
              (/\ Len(maState.history) >= maOptions.longWindow + 1
               /\ ShortAboveLong(maState.history, maOptions.shortWindow,
                                 maOptions.longWindow)
               /\ ~ShortAboveLong(DropLast(maState.history), maOptions.shortWindow,
                                  maOptions.longWindow))
        /\ maState.hysteresisBuffer <= 1
        /\ (maOptions.hysteresisCount >= 2) =>
              /\ maTick.tradeSignal = Neutral
              /\ maState.lastTradeSignal = Neutral

\* The averages have crossed upward right after crossing downward, the
\* analyzer requires two agreeing ticks, and nothing is returned
C35_Witness ==
    /\ maTick.constructed
    /\ maOptions.hysteresisCount >= 2
    /\ maTick.previousIntent = Sell
    /\ maTick.intent = Buy
    /\ maState.hysteresisBuffer = 1
    /\ maTick.tradeSignal = Neutral

(***************************************************************************)
(* TradeManagerService: startCapture, stopCapture and the capture loop.    *)
(* Every await is a point where another call, a timer or a settled promise *)
(* may run; the three awaits on the page in startCapture (setViewport,     *)
(* goto, waitForSelector) are taken as one.  A browser is known by the     *)
(* number of its launch and its page carries the same number; 0 is null.   *)
(* A tick is known by its number; runningTick holds the number of the tick *)
(* whose promise it is.                                                    *)
(***************************************************************************)
MaxCaptureCalls == 3

SvcConstructed == "isRunning" \in DOMAIN tkService

\* The fields after the constructor, with what the model keeps beside them:
\* browsers launched and still open, timers pending, ticks in flight, and
\* the calls of startCapture and stopCapture made so far
NewService ==
    [isRunning |-> FALSE, browser |-> 0, page |-> 0, tickTimeoutId |-> FALSE,
     runningTick |-> 0,
     launched |-> 0, open |-> {}, timers |-> 0, ticks |-> 0, inFlight |-> {},
     calls |-> <<>>]

scheduleNextTick_KeepsOldTimer(s) ==
    [s EXCEPT !.timers = @ + 1, !.tickTimeoutId = TRUE]

\* scheduleNextTick: a timer already referenced is cleared, a new one is set
scheduleNextTick(s) ==
    [s EXCEPT !.timers = (IF s.tickTimeoutId THEN @ - 1 ELSE @) + 1,
              !.tickTimeoutId = TRUE]

TickFinally_NoReschedule(s) == [s EXCEPT !.runningTick = 0]

\* tick's finally block
TickFinally(s) ==
    IF s.isRunning
    THEN scheduleNextTick([s EXCEPT !.runningTick = 0])
    ELSE [s EXCEPT !.runningTick = 0]

SvcUnchangedOthers ==
    UNCHANGED <<pipelineVars, replayVars, liveVars, agentVars, twinVars, sessVars,
                ctorVars, dfVars, wmVars, maVars, hmVars>>

NewTradeManagerService ==
    /\ ~SvcConstructed
    /\ tkService' = NewService
    /\ UNCHANGED tkControllers
    /\ SvcUnchangedOthers

SvcAddTradeController ==
    /\ SvcConstructed
    /\ TkAddTradeController

SvcStartController ==
    /\ SvcConstructed
    /\ TkStartController

SvcStopController ==
    /\ SvcConstructed
    /\ TkStopController

\* startCapture up to its first await
StartCaptureCalled ==
    /\ SvcConstructed
    /\ Len(tkService.calls) < MaxCaptureCalls
    /\ tkService' =
         [tkService EXCEPT !.calls =
            Append(@, IF tkService.isRunning
                      THEN [kind |-> "start", phase |-> "returned", target |-> 0]
                      ELSE [kind |-> "start", phase |-> "launch", target |-> 0])]
    /\ UNCHANGED tkControllers
    /\ SvcUnchangedOthers

\* puppeteer.launch() resolved: this.browser is assigned and newPage() is
\* called on it
StartLaunched ==
    /\ SvcConstructed
    /\ \E i \in DOMAIN tkService.calls :
         /\ tkService.calls[i].kind = "start"
         /\ tkService.calls[i].phase = "launch"
         /\ LET b == tkService.launched + 1
            IN  tkService' = [tkService EXCEPT !.launched = b,
                                               !.open = @ \cup {b},
                                               !.browser = b,
                                               !.calls[i].phase = "newPage",
                                               !.calls[i].target = b]
    /\ UNCHANGED tkControllers
    /\ SvcUnchangedOthers

\* newPage() settled: this.page is assigned and the page is set up
StartPageCreated ==
    /\ SvcConstructed
    /\ \E i \in DOMAIN tkService.calls :
         /\ tkService.calls[i].kind = "start"
         /\ tkService.calls[i].phase = "newPage"
         /\ tkService' =
              IF tkService.calls[i].target \in tkService.open
              THEN [tkService EXCEPT !.page = tkService.calls[i].target,
                                     !.calls[i].phase = "setup"]
              ELSE [tkService EXCEPT !.calls[i].phase = "rejected"]
    /\ UNCHANGED tkControllers
    /\ SvcUnchangedOthers

\* The page is ready (this.page is read again after each await): isRunning
\* is set and the first tick is scheduled
StartPageReady ==
    /\ SvcConstructed
    /\ \E i \in DOMAIN tkService.calls :
         /\ tkService.calls[i].kind = "start"
         /\ tkService.calls[i].phase = "setup"
         /\ tkService' =
              IF tkService.page \in tkService.open
              THEN [scheduleNextTick([tkService EXCEPT !.isRunning = TRUE])
                      EXCEPT !.calls[i].phase = "resolved"]
              ELSE [tkService EXCEPT !.calls[i].phase = "rejected"]
    /\ UNCHANGED tkControllers
    /\ SvcUnchangedOthers

\* stopCapture after isRunning is cleared and the timer removed: what it
\* awaits next
StopContinues(s, i, awaitTick) ==
    IF awaitTick /\ s.runningTick # 0
    THEN [s EXCEPT !.calls[i].phase = "awaitTick", !.calls[i].target = s.runningTick]
    ELSE LET t == IF awaitTick THEN s ELSE [s EXCEPT !.runningTick = 0]
         IN  IF t.browser # 0
             THEN [t EXCEPT !.calls[i].phase = "closing", !.calls[i].target = t.browser]
             ELSE [t EXCEPT !.calls[i].phase = "resolved"]

\* stopCapture up to its first await
StopCaptureCalled ==
    /\ SvcConstructed
    /\ Len(tkService.calls) < MaxCaptureCalls
    /\ LET i == Len(tkService.calls) + 1
           called == [tkService EXCEPT !.calls =
                        Append(@, [kind |-> "stop", phase |-> "returned", target |-> 0])]
           cleared == [called EXCEPT !.isRunning = FALSE,
                                     !.timers = IF called.tickTimeoutId THEN @ - 1 ELSE @,
                                     !.tickTimeoutId = FALSE]
       IN  tkService' = IF ~tkService.isRunning THEN called
                        ELSE StopContinues(cleared, i, TRUE)
    /\ UNCHANGED tkControllers
    /\ SvcUnchangedOthers

\* The awaited runningTick has settled: runningTick is cleared and the
\* browser, if any, is closed
StopTickSettled ==
    /\ SvcConstructed
    /\ \E i \in DOMAIN tkService.calls :
         /\ tkService.calls[i].kind = "stop"
         /\ tkService.calls[i].phase = "awaitTick"
         /\ \A t \in tkService.inFlight : t.id # tkService.calls[i].target
         /\ tkService' = StopContinues(tkService, i, FALSE)
    /\ UNCHANGED tkControllers
    /\ SvcUnchangedOthers

\* browser.close() resolved
StopBrowserClosed ==
    /\ SvcConstructed
    /\ \E i \in DOMAIN tkService.calls :
         /\ tkService.calls[i].kind = "stop"
         /\ tkService.calls[i].phase = "closing"
         /\ tkService' = [tkService EXCEPT !.open = @ \ {tkService.calls[i].target},
                                           !.browser = 0,
                                           !.page = 0,
                                           !.calls[i].phase = "resolved"]
    /\ UNCHANGED tkControllers
    /\ SvcUnchangedOthers

\* The timer fires: tick() runs up to its first await, then runningTick is
\* assigned its promise
TickTimerFires ==
    /\ SvcConstructed
    /\ tkService.tickTimeoutId
    /\ tkService.ticks < MaxServiceTicks
    /\ LET id == tkService.ticks + 1
           fired == [tkService EXCEPT !.tickTimeoutId = FALSE, !.timers = @ - 1,
                                      !.ticks = id]
       IN  tkService' =
             IF fired.page = 0
             THEN [TickFinally(fired) EXCEPT !.runningTick = id]
             ELSE [fired EXCEPT !.runningTick = id,
                                !.inFlight = @ \cup {[id |-> id, phase |-> "evaluate",
                                                      page |-> fired.page,
                                                      awaiting |-> {}]}]
    /\ UNCHANGED tkControllers
    /\ SvcUnchangedOthers

\* page.evaluate settled: with a frame, with an empty dataUrl, or rejected
TickEvaluated ==
    /\ SvcConstructed
    /\ \E t \in tkService.inFlight, outcome \in {"frame", "empty", "throws"} :
         /\ t.phase = "evaluate"
         /\ outcome # "throws" => t.page \in tkService.open
         /\ LET active == {k \in DOMAIN tkControllers : tkControllers[k].active}
                rest == [tkService EXCEPT !.inFlight = @ \ {t}]
            IN  IF outcome = "frame"
                THEN /\ tkService' =
                          [rest EXCEPT !.inFlight =
                             @ \cup {[t EXCEPT !.phase = "analyze", !.awaiting = active]}]
                     /\ tkControllers' =
                          [k \in DOMAIN tkControllers |->
                             IF k \in active
                             THEN [tkControllers[k] EXCEPT !.submitted = @ + 1]
                             ELSE tkControllers[k]]
                ELSE /\ tkService' = TickFinally(rest)
                     /\ UNCHANGED tkControllers
    /\ SvcUnchangedOthers

\* One controller's analyzeTick settles (a rejection is caught and logged)
SvcAnalyzeTickSettled ==
    /\ SvcConstructed
    /\ \E t \in tkService.inFlight :
         \E k \in t.awaiting :
            tkService' = [tkService EXCEPT !.inFlight =
                            (@ \ {t}) \cup {[t EXCEPT !.awaiting = @ \ {k}]}]
    /\ UNCHANGED tkControllers
    /\ SvcUnchangedOthers

\* Promise.all(tickPromises) resolved: the tick settles
TickSettles ==
    /\ SvcConstructed
    /\ \E t \in tkService.inFlight :
         /\ t.phase = "analyze"
         /\ t.awaiting = {}
         /\ tkService' = TickFinally([tkService EXCEPT !.inFlight = @ \ {t}])
    /\ UNCHANGED tkControllers
    /\ SvcUnchangedOthers

\* The capture loop after one startCapture, with controllers added, started
\* and stopped at any time
CaptureStartedOnce ==
    /\ SvcConstructed
    /\ tkService.calls = <<>>
    /\ StartCaptureCalled

CaptureNext ==
    \/ NewTradeManagerService
    \/ SvcAddTradeController
    \/ SvcStartController
    \/ SvcStopController
    \/ CaptureStartedOnce
    \/ StartLaunched
    \/ StartPageCreated
    \/ StartPageReady
    \/ TickTimerFires
    \/ TickEvaluated
    \/ SvcAnalyzeTickSettled
    \/ TickSettles

SpecCapture == TkInit /\ [][CaptureNext]_vars

\* startCapture and stopCapture called in any order and at any await of one
\* another, over a shorter run of ticks and with one controller
MaxStartStopTicks == 2

MaxStartStopControllers == 1

StartStopAddTradeController ==
    /\ Len(tkControllers) < MaxStartStopControllers
    /\ SvcAddTradeController

StartStopTimerFires ==
    /\ SvcConstructed
    /\ tkService.ticks < MaxStartStopTicks
    /\ TickTimerFires

StartStopNext ==
    \/ NewTradeManagerService
    \/ StartStopAddTradeController
    \/ SvcStartController
    \/ StartCaptureCalled
    \/ StartLaunched
    \/ StartPageCreated
    \/ StartPageReady
    \/ StopCaptureCalled
    \/ StopTickSettled
    \/ StopBrowserClosed
    \/ StartStopTimerFires
    \/ TickEvaluated
    \/ SvcAnalyzeTickSettled
    \/ TickSettles

SpecStartStop == TkInit /\ [][StartStopNext]_vars

CallSettled(call) == call.phase \in {"returned", "resolved", "rejected"}

\* C37: once a stopCapture call has resolved, and until startCapture is
\* called again, no tick timer is pending and no tick is in flight.
C37_StopMeansStopped ==
    SvcConstructed =>
        \A i \in DOMAIN tkService.calls :
            (/\ tkService.calls[i].kind = "stop"
             /\ CallSettled(tkService.calls[i])
             /\ \A j \in DOMAIN tkService.calls :
                    j > i => tkService.calls[j].kind # "start")
                => /\ tkService.timers = 0
                   /\ tkService.inFlight = {}

\* C38: under any interleaving of startCapture and stopCapture at most one
\* browser is open, and once every call has settled isCaptureRunning() is
\* true exactly when the service holds an open page and a tick is scheduled
\* or running.
C38_OneBrowserAndRunningMeansCapturing ==
    SvcConstructed =>
        /\ Cardinality(tkService.open) <= 1
        /\ (\A i \in DOMAIN tkService.calls : CallSettled(tkService.calls[i])) =>
              (tkService.isRunning <=>
                  (/\ tkService.page \in tkService.open
                   /\ (tkService.timers > 0 \/ tkService.inFlight # {})))

(***************************************************************************)
(* One HeatmapAnalyzer instance analysing frames one after another         *)
(***************************************************************************)
MaxHeatmapCalls == 3

HmOptionChoices ==
    { HeatmapBase,
      [minSaturation |-> 300, autoTuneSPercentile |-> 50, autoTuneSMinFloor |-> 200] }

\* The frames of HeatmapFrames and a frame of middling saturation
HmFrames ==
    HeatmapFrames \cup
        { <<[s |-> 400, family |-> "red", n |-> 30], [s |-> 600, family |-> "green", n |-> 30]>> }

HmInit == TkInit

\* new HeatmapAnalyzer(options): this.options = options
NewHeatmapAnalyzer ==
    /\ hmCall.op = "none"
    /\ \E options \in HmOptionChoices :
         /\ hmConfigured' = options
         /\ hmOptions' = options
    /\ hmFrames' = <<>>
    /\ hmCall' = [op |-> "new"]
    /\ UNCHANGED <<pipelineVars, replayVars, liveVars, agentVars, twinVars, sessVars,
                   ctorVars, dfVars, wmVars, tkVars, maVars>>

\* analyze(input): this.options.minSaturation is assigned the tuned value
HmAnalyzeAction ==
    /\ hmCall.op # "none"
    /\ Len(hmFrames) < MaxHeatmapCalls
    /\ \E frame \in HmFrames :
         LET result == HeatmapAnalyze(hmOptions, frame)
         IN  /\ hmOptions' = [hmOptions EXCEPT !.minSaturation = result.minSaturation]
             /\ hmFrames' = Append(hmFrames, frame)
             /\ hmCall' = [op |-> "analyze", frame |-> frame, before |-> hmOptions,
                           result |-> result]
    /\ UNCHANGED hmConfigured
    /\ UNCHANGED <<pipelineVars, replayVars, liveVars, agentVars, twinVars, sessVars,
                   ctorVars, dfVars, wmVars, tkVars, maVars>>

HmNext ==
    \/ NewHeatmapAnalyzer
    \/ HmAnalyzeAction

SpecHeatmap == HmInit /\ [][HmNext]_vars

\* C40: the saturation gate applied to a frame, and the result of analysing
\* it, are those a newly constructed analyzer with the configured options
\* gives for that frame, whatever frames the instance analysed before.
C40_NoMemoryBetweenFrames ==
    hmCall.op = "analyze" =>
        hmCall.result = HeatmapAnalyze(hmConfigured, hmCall.frame)
====
